---- MODULE Spec2Model ----
(***************************************************************************)
(* key-service: the provider-requirement registry (caller headers, record, *)
(* query), the decrypt-class handlers that feed it, and the service-key    *)
(* middleware.  Strings are sequences of one-character strings, so that    *)
(* trimming and case conversion are computed, not assumed.                 *)
(***************************************************************************)
EXTENDS Integers, Sequences, FiniteSets, TLC

VARIABLES
    \* ---- relational store (src/src/db/schema.ts)
    orgs,            \* orgs rows            [id, orgId]
    byokKeys,        \* byok_keys rows       [id, orgId, provider, encryptedKey]
    appKeys,         \* app_keys rows        [id, appId, provider, encryptedKey]
    platformKeys,    \* platform_keys rows   [id, provider, encryptedKey]
    provReqs,        \* provider_requirements rows
    nextId,          \* next value of defaultRandom() (ids are never reused)
    now,             \* wall clock read by new Date() and defaultNow()
    \* ---- decrypt-class requests in flight
    reqs,            \* per request slot: the handler's position and locals
    lastResp,        \* the response most recently sent by a decrypt-class handler
    served,          \* number of decrypt-class requests accepted so far
    \* ---- POST /internal/provider-requirements
    query,           \* the handler's position, loop index, results and response
    \* ---- extractCallerHeaders as a function under test
    hdrIn, hdrOut,
    \* ---- serviceKeyAuth
    serviceKeyEnv,   \* process.env.KEY_SERVICE_API_KEY
    authReq,         \* one request passing through the middleware
    \* ---- the predicates of lib/api-key.ts as functions under test
    clsIn, clsOut,
    \* ---- credentials (api_keys, apps), their issuance and apiKeyAuth
    apiKeys,         \* api_keys rows [id, orgId, keyHash, name, encryptedKey, lastUsedAt]
    apps,            \* apps rows     [id, name, keyHash]
    iss,             \* per slot: an issuance request in flight
    issued,          \* every credential handed out: raw token, kind, owner, row id
    cred,            \* one request passing through apiKeyAuth
    credLog,         \* the rejections apiKeyAuth has sent, by kind of token
    \* ---- storing and deleting secrets
    ops,             \* per slot: a store, delete or decrypt request in flight
    secLog           \* per natural key: the value of the last completed store

storeVars == <<orgs, byokKeys, appKeys, platformKeys, provReqs, nextId, now>>
reqVars   == <<reqs, lastResp, served>>
queryVars == <<query>>
hdrVars   == <<hdrIn, hdrOut>>
authVars  == <<serviceKeyEnv, authReq>>
classVars == <<clsIn, clsOut>>
credVars  == <<apiKeys, apps, iss, issued, cred, credLog>>
secVars   == <<ops, secLog>>
moreVars  == <<classVars, credVars, secVars>>
vars      == <<storeVars, reqVars, queryVars, hdrVars, authVars, moreVars>>

(***************************************************************************)
(* Bounds                                                                  *)
(***************************************************************************)
MaxLen == 2          \* longest raw header / key string enumerated
MaxClock == 2        \* the clock ticks at most this many times
MaxServed == 2       \* decrypt-class requests accepted while served concurrently
MaxCalls == 3        \* decrypt-class requests accepted while served one by one
MaxEndpoints == 2    \* longest endpoints list of a query

(***************************************************************************)
(* Strings                                                                 *)
(***************************************************************************)
\* The characters enumerated: one whitespace, one letter in both cases.
Alphabet == {" ", "a", "A"}

\* String.prototype.trim() strips these (the ones that can be typed here).
WhiteSpace == {" ", "\t", "\n", "\r"}

RECURSIVE StringsUpTo(_)
StringsUpTo(n) ==
    IF n = 0 THEN {<< >>}
    ELSE LET shorter == StringsUpTo(n - 1)
         IN  shorter \cup {Append(s, c) : s \in {t \in shorter : Len(t) = n - 1}, c \in Alphabet}

Strings == StringsUpTo(MaxLen)

\* String.prototype.toLowerCase / toUpperCase on one character.
LowerChar(c) == IF c = "A" THEN "a" ELSE IF c = "B" THEN "b" ELSE c
UpperChar(c) == IF c = "a" THEN "A" ELSE IF c = "b" THEN "B" ELSE c

toLowerCase(s) == [i \in 1..Len(s) |-> LowerChar(s[i])]
toUpperCase(s) == [i \in 1..Len(s) |-> UpperChar(s[i])]

RECURSIVE TrimStart(_)
TrimStart(s) ==
    IF s # << >> /\ Head(s) \in WhiteSpace THEN TrimStart(Tail(s)) ELSE s

RECURSIVE TrimEnd(_)
TrimEnd(s) ==
    IF s # << >> /\ s[Len(s)] \in WhiteSpace
    THEN TrimEnd(SubSeq(s, 1, Len(s) - 1)) ELSE s

\* String.prototype.trim()
trim(s) == TrimEnd(TrimStart(s))

(***************************************************************************)
(* Caller headers (lib/caller-headers.ts)                                  *)
(***************************************************************************)
\* A header slot of req.headers: undefined, a string, or a string[].
Absent == [t |-> "undefined", v |-> << >>]
ArrayValue == [t |-> "array", v |-> << >>]
Str(s) == [t |-> "string", v |-> s]

HeaderValues == {Absent, ArrayValue} \cup {Str(s) : s \in Strings}

\* The result null of extractCallerHeaders.
NoCaller == [ok |-> FALSE, service |-> << >>, method |-> << >>, path |-> << >>]

\* A faulty extraction: the path is lower-cased like the service.
extractCallerHeadersLowerPath(service, method, path) ==
    IF \/ service.t # "string" \/ trim(service.v) = << >>
       \/ method.t # "string" \/ trim(method.v) = << >>
       \/ path.t # "string" \/ trim(path.v) = << >>
    THEN NoCaller
    ELSE [ok |-> TRUE,
          service |-> toLowerCase(trim(service.v)),
          method |-> toUpperCase(trim(method.v)),
          path |-> toLowerCase(trim(path.v))]

\* A faulty extraction: the method header is not validated.
extractCallerHeadersNoMethodCheck(service, method, path) ==
    IF \/ service.t # "string" \/ trim(service.v) = << >>
       \/ path.t # "string" \/ trim(path.v) = << >>
    THEN NoCaller
    ELSE [ok |-> TRUE,
          service |-> toLowerCase(trim(service.v)),
          method |-> toUpperCase(trim(method.v)),
          path |-> trim(path.v)]

\* extractCallerHeaders(req), given the three header slots it reads.
extractCallerHeaders(service, method, path) ==
    IF \/ service.t # "string" \/ trim(service.v) = << >>
       \/ method.t # "string" \/ trim(method.v) = << >>
       \/ path.t # "string" \/ trim(path.v) = << >>
    THEN NoCaller
    ELSE [ok |-> TRUE,
          service |-> toLowerCase(trim(service.v)),
          method |-> toUpperCase(trim(method.v)),
          path |-> trim(path.v)]

(***************************************************************************)
(* Secrets at rest (lib/crypto.ts) and the store's contents                *)
(***************************************************************************)
\* The ENCRYPTION_KEY the process runs with, and the one it ran with before
\* the key was changed: a value sealed under the old key fails its tag check.
EncryptionKey == "key-current"
PreviousKey == "key-previous"

\* encrypt(plaintext) under key k: what the ciphertext decrypts to, and with what.
Sealed(pt, k) == [pt |-> pt, key |-> k]
NoSecret == Sealed("", "")

\* decrypt(serialized): the plaintext, or a thrown error when the
\* authentication tag does not verify under ENCRYPTION_KEY.
decrypt(enc) ==
    IF enc.key = EncryptionKey THEN [ok |-> TRUE, pt |-> enc.pt]
    ELSE [ok |-> FALSE, pt |-> ""]

\* Providers named in requests, in the order Array.prototype.sort puts them
\* (UTF-16 code units: "anthropic" < "apollo" < "firecrawl").
Providers == {"anthropic", "apollo", "firecrawl"}
ProviderRank == [p \in Providers |->
    IF p = "anthropic" THEN 1 ELSE IF p = "apollo" THEN 2 ELSE 3]

\* Owners named in requests; "" stands for a missing or empty query parameter.
ExternalOrgIds == {"org_1", "org_2"}
AppIds == {"app_1", "app_2"}

\* The store before the first decrypt-class request: org_1 and app_1 and the
\* platform each hold an "anthropic" secret sealed under the current key and
\* an "apollo" secret sealed under the previous key; nobody holds "firecrawl".
InitOrgs == {[id |-> 1, orgId |-> "org_1"]}
InitByokKeys ==
    {[id |-> 2, orgId |-> 1, provider |-> "anthropic",
      encryptedKey |-> Sealed("sk-ant-secret123", EncryptionKey)],
     [id |-> 3, orgId |-> 1, provider |-> "apollo",
      encryptedKey |-> Sealed("apollo-byok", PreviousKey)]}
InitAppKeys ==
    {[id |-> 4, appId |-> "app_1", provider |-> "anthropic",
      encryptedKey |-> Sealed("sk-ant-app", EncryptionKey)],
     [id |-> 5, appId |-> "app_1", provider |-> "apollo",
      encryptedKey |-> Sealed("apollo-app", PreviousKey)]}
InitPlatformKeys ==
    {[id |-> 6, provider |-> "anthropic",
      encryptedKey |-> Sealed("sk-ant-platform", EncryptionKey)],
     [id |-> 7, provider |-> "apollo",
      encryptedKey |-> Sealed("apollo-platform", PreviousKey)]}
FirstFreeId ==
    Cardinality(InitOrgs) + Cardinality(InitByokKeys) + Cardinality(InitAppKeys)
        + Cardinality(InitPlatformKeys) + 1

(***************************************************************************)
(* recordProviderRequirement (lib/provider-registry.ts)                    *)
(***************************************************************************)
\* The rows of provider_requirements carrying the 4-tuple.
RowsFor(rows, caller, provider) ==
    {r \in rows : /\ r.service = caller.service /\ r.method = caller.method
                  /\ r.path = caller.path /\ r.provider = provider}

\* findFirst on the 4-tuple: the id of the row found, 0 for undefined.
findExisting(rows, caller, provider) ==
    IF RowsFor(rows, caller, provider) = {} THEN 0
    ELSE (CHOOSE r \in RowsFor(rows, caller, provider) : TRUE).id

\* idx_provider_req_unique: would inserting the 4-tuple violate the index?
ViolatesProvReqUnique(rows, caller, provider) ==
    RowsFor(rows, caller, provider) # {}

\* A faulty update: resets last_seen_at instead of setting it to the date given.
updateLastSeenAtReset(rows, id, date) ==
    {IF r.id = id THEN [r EXCEPT !.lastSeenAt = 0] ELSE r : r \in rows}

\* A faulty update: it has no WHERE clause.
updateLastSeenAtEveryRow(rows, id, date) == {[r EXCEPT !.lastSeenAt = date] : r \in rows}

\* UPDATE provider_requirements SET last_seen_at = date WHERE id = id
updateLastSeenAt(rows, id, date) ==
    {IF r.id = id THEN [r EXCEPT !.lastSeenAt = date] ELSE r : r \in rows}

\* INSERT INTO provider_requirements (service, method, path, provider):
\* id, last_seen_at and created_at take their column defaults.
insertRequirement(rows, id, caller, provider, dbNow) ==
    rows \cup {[id |-> id, service |-> caller.service, method |-> caller.method,
                path |-> caller.path, provider |-> provider,
                lastSeenAt |-> dbNow, createdAt |-> dbNow]}

(***************************************************************************)
(* Decrypt-class handlers (routes/internal.ts, routes/validate.ts)         *)
(***************************************************************************)
NumSlots == 2        \* requests that can be in flight together
Slots == 1..NumSlots

Routes == {"byok", "app", "platform", "validate"}

\* The raw caller headers (service, method, path) requests are sent with: two
\* complete triples, written differently, of one endpoint, and triples with
\* one header absent, blank, empty or repeated.
ReqHeaders ==
    {<<Str(<<"A", " ">>), Str(<<"a">>), Str(<<" ", "a">>)>>,
     <<Str(<<"a">>), Str(<<" ", "A">>), Str(<<"a">>)>>,
     <<Absent, Str(<<"a">>), Str(<<"a">>)>>,
     <<Str(<<"a">>), Str(<<" ">>), Str(<<"a">>)>>,
     <<Str(<<"a">>), Str(<<"a">>), Str(<< >>)>>,
     <<Str(<<"a">>), ArrayValue, Str(<<"A">>)>>}

\* Is the header absent or blank?
IsBlank(h) == h.t # "string" \/ \A i \in 1..Len(h.v) : h.v[i] \in WhiteSpace

NoKey == [found |-> FALSE, encryptedKey |-> NoSecret]

IdleReq ==
    [pc |-> "idle", route |-> "", provider |-> "", owner |-> "", orgId |-> 0,
     caller |-> NoCaller, blank |-> FALSE, key |-> NoKey, existing |-> 0,
     date |-> 0, lookup |-> "none", wrote |-> "none"]

NoResp ==
    [route |-> "", status |-> 0, error |-> "", key |-> "", cause |-> "", blank |-> FALSE,
     lookup |-> "none", wrote |-> "none"]

\* res.status(status).json(...) ends the request held in slot p.
Respond(p, r, status, error, cause, key) ==
    /\ reqs' = [reqs EXCEPT ![p] = IdleReq]
    /\ lastResp' = [route |-> r.route, status |-> status, error |-> error, key |-> key,
                    cause |-> cause, blank |-> r.blank,
                    lookup |-> r.lookup, wrote |-> r.wrote]

\* The catch block of every handler.
InternalError(p, r, cause) == Respond(p, r, 500, "Internal server error", cause, "")

MissingHeaders(p, r) ==
    Respond(p, r, 400,
            "Missing required headers: X-Caller-Service, X-Caller-Method, X-Caller-Path",
            "", "")

NewReq(route, provider, owner, hs, hm, hp) ==
    [IdleReq EXCEPT !.route = route, !.provider = provider, !.owner = owner,
                    !.caller = extractCallerHeaders(hs, hm, hp),
                    !.blank = IsBlank(hs) \/ IsBlank(hm) \/ IsBlank(hp)]

\* GET /internal/keys/:provider/decrypt, up to its first await.
ByokDecryptStart(p, quota) ==
    /\ reqs[p].pc = "idle" /\ served < quota
    /\ \E provider \in Providers, externalOrgId \in ExternalOrgIds \cup {""},
          h \in ReqHeaders :
         LET r == NewReq("byok", provider, externalOrgId, h[1], h[2], h[3]) IN
         IF externalOrgId = ""
         THEN Respond(p, r, 400, "orgId required", "", "")
         ELSE IF ~r.caller.ok
         THEN MissingHeaders(p, r)
         ELSE /\ reqs' = [reqs EXCEPT ![p] = [r EXCEPT !.pc = "ensureOrgFind"]]
              /\ UNCHANGED lastResp
    /\ served' = served + 1
    /\ UNCHANGED <<storeVars, queryVars, hdrVars, authVars, moreVars>>

\* ensureOrg: findFirst on orgs.orgId.
EnsureOrgFind(p) ==
    /\ reqs[p].pc = "ensureOrgFind"
    /\ LET r == reqs[p]
           found == {o \in orgs : o.orgId = r.owner}
       IN  IF found # {}
           THEN reqs' = [reqs EXCEPT ![p] =
                    [r EXCEPT !.pc = "secretLookup",
                              !.orgId = (CHOOSE o \in found : TRUE).id]]
           ELSE reqs' = [reqs EXCEPT ![p] = [r EXCEPT !.pc = "ensureOrgInsert"]]
    /\ UNCHANGED <<storeVars, lastResp, served, queryVars, hdrVars, authVars, moreVars>>

\* ensureOrg: insert into orgs; idx_orgs_org_id rejects a second row.
EnsureOrgInsert(p) ==
    /\ reqs[p].pc = "ensureOrgInsert"
    /\ LET r == reqs[p] IN
       IF \E o \in orgs : o.orgId = r.owner
       THEN /\ InternalError(p, r, "orgs_unique")
            /\ UNCHANGED <<orgs, nextId>>
       ELSE /\ orgs' = orgs \cup {[id |-> nextId, orgId |-> r.owner]}
            /\ nextId' = nextId + 1
            /\ reqs' = [reqs EXCEPT ![p] =
                   [r EXCEPT !.pc = "secretLookup", !.orgId = nextId]]
            /\ UNCHANGED lastResp
    /\ UNCHANGED <<byokKeys, appKeys, platformKeys, provReqs, now, served,
                   queryVars, hdrVars, authVars, moreVars>>

\* GET /internal/app-keys/:provider/decrypt, up to its first await.
AppDecryptStart(p, quota) ==
    /\ reqs[p].pc = "idle" /\ served < quota
    /\ \E provider \in Providers, appId \in AppIds \cup {""},
          h \in ReqHeaders :
         LET r == NewReq("app", provider, appId, h[1], h[2], h[3]) IN
         IF appId = ""
         THEN Respond(p, r, 400, "appId required", "", "")
         ELSE IF ~r.caller.ok
         THEN MissingHeaders(p, r)
         ELSE /\ reqs' = [reqs EXCEPT ![p] = [r EXCEPT !.pc = "secretLookup"]]
              /\ UNCHANGED lastResp
    /\ served' = served + 1
    /\ UNCHANGED <<storeVars, queryVars, hdrVars, authVars, moreVars>>

\* GET /internal/platform-keys/:provider/decrypt, up to its first await.
PlatformDecryptStart(p, quota) ==
    /\ reqs[p].pc = "idle" /\ served < quota
    /\ \E provider \in Providers,
          h \in ReqHeaders :
         LET r == NewReq("platform", provider, "", h[1], h[2], h[3]) IN
         IF ~r.caller.ok
         THEN MissingHeaders(p, r)
         ELSE /\ reqs' = [reqs EXCEPT ![p] = [r EXCEPT !.pc = "secretLookup"]]
              /\ UNCHANGED lastResp
    /\ served' = served + 1
    /\ UNCHANGED <<storeVars, queryVars, hdrVars, authVars, moreVars>>

\* GET /validate/keys/:provider after apiKeyAuth has set req.authType and
\* req.orgId (the org of the user key; unset for an app key), up to its
\* first await.
ValidateKeyStart(p, quota) ==
    /\ reqs[p].pc = "idle" /\ served < quota
    /\ \E provider \in Providers, authType \in {"user_key", "app_key"}, org \in orgs,
          h \in ReqHeaders :
         LET r == [NewReq("validate", provider, authType, h[1], h[2], h[3])
                      EXCEPT !.orgId = IF authType = "user_key" THEN org.id ELSE 0] IN
         IF authType = "app_key"
         THEN Respond(p, r, 400,
                      "BYOK key lookup requires a user API key, not an app key", "", "")
         ELSE IF ~r.caller.ok
         THEN MissingHeaders(p, r)
         ELSE /\ reqs' = [reqs EXCEPT ![p] = [r EXCEPT !.pc = "secretLookup"]]
              /\ UNCHANGED lastResp
    /\ served' = served + 1
    /\ UNCHANGED <<storeVars, queryVars, hdrVars, authVars, moreVars>>

\* A faulty lookup that matches on the provider alone.
FindSecretAnyOwner(r) ==
    LET rows == IF r.route \in {"byok", "validate"}
                THEN {k \in byokKeys : k.provider = r.provider}
                ELSE IF r.route = "app"
                THEN {k \in appKeys : k.provider = r.provider}
                ELSE {k \in platformKeys : k.provider = r.provider}
    IN  IF rows = {} THEN NoKey
        ELSE [found |-> TRUE, encryptedKey |-> (CHOOSE k \in rows : TRUE).encryptedKey]

\* The row findFirst returns from the route's secrets table.
FindSecret(r) ==
    LET rows == IF r.route \in {"byok", "validate"}
                THEN {k \in byokKeys : k.orgId = r.orgId /\ k.provider = r.provider}
                ELSE IF r.route = "app"
                THEN {k \in appKeys : k.appId = r.owner /\ k.provider = r.provider}
                ELSE {k \in platformKeys : k.provider = r.provider}
    IN  IF rows = {} THEN NoKey
        ELSE [found |-> TRUE, encryptedKey |-> (CHOOSE k \in rows : TRUE).encryptedKey]

\* A faulty continuation: records the requirement whether or not a key was found.
SecretLookupDoneNoCheck(p, r, key) ==
    /\ reqs' = [reqs EXCEPT ![p] = [r EXCEPT !.pc = "recordFind", !.key = key]]
    /\ UNCHANGED lastResp

\* What the handler does with the row looked up: 404 (its message names the
\* provider and the owner), or go on to record.
SecretLookupDone(p, r, key) ==
    IF ~key.found
    THEN Respond(p, r, 404, "key not found", "", "")
    ELSE /\ reqs' = [reqs EXCEPT ![p] = [r EXCEPT !.pc = "recordFind", !.key = key]]
         /\ UNCHANGED lastResp

\* The secret lookup of the four handlers.
SecretLookup(p) ==
    /\ reqs[p].pc = "secretLookup"
    /\ LET key == FindSecret(reqs[p])
           r == [reqs[p] EXCEPT !.lookup = IF key.found THEN "hit" ELSE "miss"]
       IN  SecretLookupDone(p, r, key)
    /\ UNCHANGED <<storeVars, served, queryVars, hdrVars, authVars, moreVars>>

\* recordProviderRequirement: the findFirst; on a row, new Date() is read
\* as the update is issued.
RecordFind(p) ==
    /\ reqs[p].pc = "recordFind"
    /\ LET r == reqs[p]
           existing == findExisting(provReqs, r.caller, r.provider)
       IN  reqs' = [reqs EXCEPT ![p] =
               [r EXCEPT !.pc = "recordWrite", !.existing = existing,
                         !.date = IF existing # 0 THEN now ELSE 0]]
    /\ UNCHANGED <<storeVars, lastResp, served, queryVars, hdrVars, authVars, moreVars>>

\* After recordProviderRequirement returned: res.json({provider, key: decrypt(...)}).
SendKey(p, r) ==
    LET plain == decrypt(r.key.encryptedKey) IN
    IF plain.ok THEN Respond(p, r, 200, "", "", plain.pt)
    ELSE InternalError(p, r, "decrypt")

\* recordProviderRequirement: the update or the insert, then the rest of the handler.
RecordWrite(p) ==
    /\ reqs[p].pc = "recordWrite"
    /\ LET r == reqs[p] IN
       IF r.existing # 0
       THEN /\ provReqs' = updateLastSeenAt(provReqs, r.existing, r.date)
            /\ UNCHANGED nextId
            /\ SendKey(p, [r EXCEPT !.wrote = "update"])
       ELSE IF ViolatesProvReqUnique(provReqs, r.caller, r.provider)
       THEN /\ UNCHANGED <<provReqs, nextId>>
            /\ InternalError(p, r, "provider_requirements_unique")
       ELSE /\ provReqs' = insertRequirement(provReqs, nextId, r.caller, r.provider, now)
            /\ nextId' = nextId + 1
            /\ SendKey(p, [r EXCEPT !.wrote = "insert"])
    /\ UNCHANGED <<orgs, byokKeys, appKeys, platformKeys, now, served,
                   queryVars, hdrVars, authVars, moreVars>>

\* Time passes.
Tick ==
    /\ now < MaxClock
    /\ now' = now + 1
    /\ UNCHANGED <<orgs, byokKeys, appKeys, platformKeys, provReqs, nextId,
                   reqVars, queryVars, hdrVars, authVars, moreVars>>

(***************************************************************************)
(* POST /internal/provider-requirements (routes/internal.ts)               *)
(***************************************************************************)
\* Endpoints sent in the request body, as written by the client: the two
\* endpoints recorded below, one of them also with a leading blank in the
\* service, one never recorded, and one the schema rejects (empty path).
Endpoint(service, method, path) == [service |-> service, method |-> method, path |-> path]
QueryEndpoints ==
    {Endpoint(<<"A">>, <<"a">>, <<"a">>),
     Endpoint(<<"a">>, <<"A">>, <<"A">>),
     Endpoint(<<" ", "a">>, <<"A">>, <<"a">>),
     Endpoint(<<"a">>, <<"a">>, <<"a", "a">>),
     Endpoint(<<"a">>, <<"A">>, << >>)}

RECURSIVE SeqsUpTo(_, _)
SeqsUpTo(S, n) ==
    IF n = 0 THEN {<< >>}
    ELSE LET shorter == SeqsUpTo(S, n - 1)
         IN  shorter \cup {Append(q, e) : q \in {t \in shorter : Len(t) = n - 1}, e \in S}

\* Raw caller headers from which the stored requirements were recorded.
RecordedHeaders ==
    {<<Str(<<"A", " ">>), Str(<<"a">>), Str(<<"a">>)>>,
     <<Str(<<" ", "a">>), Str(<<"A">>), Str(<<" ", "A">>)>>}

\* The tables recordProviderRequirement can have built from those headers.
RecordableRows ==
    {<<extractCallerHeaders(h[1], h[2], h[3]), provider>> :
        h \in RecordedHeaders, provider \in Providers}

RECURSIVE TableOf(_, _, _)
TableOf(pairs, rows, id) ==
    IF pairs = {} THEN rows
    ELSE LET pr == CHOOSE x \in pairs : TRUE
         IN  TableOf(pairs \ {pr}, insertRequirement(rows, id, pr[1], pr[2], 0), id + 1)

\* ProviderRequirementsRequestSchema: endpoints is a non-empty array of
\* objects whose three strings are non-empty.
ParsesRequest(endpoints) ==
    /\ Len(endpoints) >= 1
    /\ \A i \in 1..Len(endpoints) :
          /\ Len(endpoints[i].service) >= 1
          /\ Len(endpoints[i].method) >= 1
          /\ Len(endpoints[i].path) >= 1

\* findMany for one endpoint of the loop.
findMany(rows, endpoint) ==
    {r \in rows : /\ r.service = toLowerCase(endpoint.service)
                  /\ r.method = toUpperCase(endpoint.method)
                  /\ r.path = endpoint.path}

\* The object pushed on results for a matching row.
ResultItem(r) ==
    [service |-> r.service, method |-> r.method, path |-> r.path, provider |-> r.provider]

\* The orders in which the store may return a set of rows.
Orderings(S) ==
    {q \in [1..Cardinality(S) -> S] : \A i, j \in 1..Cardinality(S) : i # j => q[i] # q[j]}

\* [...new Set(xs)]: first occurrences, in order.
RECURSIVE Dedupe(_)
Dedupe(xs) ==
    IF xs = << >> THEN << >>
    ELSE LET front == Dedupe(SubSeq(xs, 1, Len(xs) - 1))
             last == xs[Len(xs)]
         IN  IF \E i \in 1..Len(front) : front[i] = last THEN front
             ELSE Append(front, last)

\* Array.prototype.sort() on provider names: ascending by code unit.
RECURSIVE InsertSorted(_, _)
InsertSorted(xs, x) ==
    IF xs = << >> THEN <<x>>
    ELSE IF ProviderRank[x] < ProviderRank[Head(xs)] THEN <<x>> \o xs
    ELSE <<Head(xs)>> \o InsertSorted(Tail(xs), x)

RECURSIVE Sort(_)
Sort(xs) == IF xs = << >> THEN << >> ELSE InsertSorted(Sort(Tail(xs)), Head(xs))

\* [...new Set(results.map((r) => r.provider))].sort()
distinctProviders(results) ==
    Sort(Dedupe([i \in 1..Len(results) |-> results[i].provider]))

IdleQuery ==
    [pc |-> "idle", endpoints |-> << >>, i |-> 0, results |-> << >>,
     status |-> 0, providers |-> << >>]

\* The handler up to its first await: parse the body, start the loop.
QueryStart ==
    /\ query.pc = "idle"
    /\ \E endpoints \in SeqsUpTo(QueryEndpoints, MaxEndpoints) :
         IF ~ParsesRequest(endpoints)
         THEN query' = [IdleQuery EXCEPT !.pc = "done", !.endpoints = endpoints,
                                         !.status = 400]
         ELSE query' = [IdleQuery EXCEPT !.pc = "loop", !.endpoints = endpoints, !.i = 1]
    /\ UNCHANGED <<storeVars, reqVars, hdrVars, authVars, moreVars>>

\* One turn of the loop: findMany for endpoints[i], push its rows; after
\* the last endpoint, the response.
QueryEndpoint ==
    /\ query.pc = "loop"
    /\ \E matches \in Orderings(findMany(provReqs, query.endpoints[query.i])) :
         LET results == query.results \o [k \in 1..Len(matches) |-> ResultItem(matches[k])]
         IN  IF query.i < Len(query.endpoints)
             THEN query' = [query EXCEPT !.i = query.i + 1, !.results = results]
             ELSE query' = [query EXCEPT !.pc = "done", !.results = results,
                                         !.status = 200,
                                         !.providers = distinctProviders(results)]
    /\ UNCHANGED <<storeVars, reqVars, hdrVars, authVars, moreVars>>

(***************************************************************************)
(* extractCallerHeaders applied to arbitrary headers                       *)
(***************************************************************************)
IdleHdrIn == <<Absent, Absent, Absent>>
NoHdrOut == [done |-> FALSE, caller |-> NoCaller]

ExtractHeaders ==
    /\ ~hdrOut.done
    /\ hdrOut' = [done |-> TRUE,
                  caller |-> extractCallerHeaders(hdrIn[1], hdrIn[2], hdrIn[3])]
    /\ UNCHANGED <<storeVars, reqVars, queryVars, hdrIn, authVars, moreVars>>

(***************************************************************************)
(* serviceKeyAuth (middleware/auth.ts)                                     *)
(***************************************************************************)
\* Characters of service keys and of the headers that carry them; the word
\* of the bearer scheme counts as one character.
KeyAlphabet == {"s", "x", " "}
BearerWords == {"Bearer", "bearer"}

RECURSIVE KeyStringsUpTo(_)
KeyStringsUpTo(n) ==
    IF n = 0 THEN {<< >>}
    ELSE LET shorter == KeyStringsUpTo(n - 1)
         IN  shorter \cup {Append(s, c) : s \in {t \in shorter : Len(t) = n - 1}, c \in KeyAlphabet}

KeyStrings == KeyStringsUpTo(MaxLen)

\* process.env.KEY_SERVICE_API_KEY: unset, or any string.
EnvValues == {Absent} \cup {Str(s) : s \in KeyStrings}
\* req.headers["x-api-key"]
ApiKeyHeaderValues == {Absent, ArrayValue} \cup {Str(s) : s \in KeyStrings}
\* req.headers["authorization"]: the key bare, or after "Bearer ".
AuthorizationValues ==
    {Absent} \cup {Str(s) : s \in KeyStrings}
             \cup {Str(<<w, " ">> \o s) : w \in BearerWords, s \in KeyStrings}

\* JavaScript truthiness of a header slot or environment variable.
Truthy(h) == h.t = "array" \/ (h.t = "string" /\ h.v # << >>)

\* s.replace(/^Bearer\s+/i, "")
StripBearer(s) ==
    IF Len(s) >= 2 /\ s[1] \in BearerWords /\ s[2] \in WhiteSpace
    THEN TrimStart(Tail(s))
    ELSE s

\* A faulty choice of header: authorization is preferred to x-api-key.
providedKeyAuthorizationFirst(xApiKey, authorization) ==
    LET authHeader == IF Truthy(authorization) THEN authorization ELSE xApiKey
    IN  IF authHeader.t = "string" THEN Str(StripBearer(authHeader.v)) ELSE Absent

\* providedKey: the header chosen by ||, without its bearer prefix; null
\* (here: undefined) when the header chosen is not a string.
providedKey(xApiKey, authorization) ==
    LET authHeader == IF Truthy(xApiKey) THEN xApiKey ELSE authorization
    IN  IF authHeader.t = "string" THEN Str(StripBearer(authHeader.v)) ELSE Absent

Rejected(status, error) == [next |-> FALSE, status |-> status, error |-> error]
CallNext == [next |-> TRUE, status |-> 0, error |-> ""]

\* A faulty middleware: the 401 branch lacks its return, so next() is called
\* after the rejection was sent.
serviceKeyAuthNoReturn(serviceKey, xApiKey, authorization) ==
    IF ~Truthy(serviceKey) THEN Rejected(500, "Service not configured")
    ELSE LET provided == providedKey(xApiKey, authorization) IN
         IF ~Truthy(provided) \/ provided.v # serviceKey.v
         THEN [next |-> TRUE, status |-> 401, error |-> "Invalid service key"]
         ELSE CallNext

\* A faulty middleware: without a configured key every request passes.
serviceKeyAuthFailOpen(serviceKey, xApiKey, authorization) ==
    IF ~Truthy(serviceKey) THEN CallNext
    ELSE LET provided == providedKey(xApiKey, authorization) IN
         IF ~Truthy(provided) \/ provided.v # serviceKey.v
         THEN Rejected(401, "Invalid service key")
         ELSE CallNext

\* serviceKeyAuth(req, res, next)
serviceKeyAuth(serviceKey, xApiKey, authorization) ==
    IF ~Truthy(serviceKey) THEN Rejected(500, "Service not configured")
    ELSE LET provided == providedKey(xApiKey, authorization) IN
         IF ~Truthy(provided) \/ provided.v # serviceKey.v
         THEN Rejected(401, "Invalid service key")
         ELSE CallNext

NoAuthReq ==
    [pc |-> "none", xApiKey |-> Absent, authorization |-> Absent,
     status |-> 0, error |-> "", handled |-> 0]

\* A request to a route under /internal reaches the middleware.
InternalRequest ==
    /\ authReq.pc = "none"
    /\ \E xApiKey \in ApiKeyHeaderValues, authorization \in AuthorizationValues :
         LET out == serviceKeyAuth(serviceKeyEnv, xApiKey, authorization) IN
         authReq' = [pc |-> IF out.next THEN "next" ELSE "rejected",
                     xApiKey |-> xApiKey, authorization |-> authorization,
                     status |-> out.status, error |-> out.error, handled |-> 0]
    /\ UNCHANGED <<storeVars, reqVars, queryVars, hdrVars, serviceKeyEnv, moreVars>>

\* DELETE FROM platform_keys WHERE provider = provider
deletePlatformKey(rows, provider) == {k \in rows : k.provider # provider}

\* app.use("/internal", serviceKeyAuth, internalRoutes): the router runs
\* once next() was called.  Of its handlers, one that only reads
\* (GET /platform-keys) and one that writes (DELETE /platform-keys/:provider).
InternalRoutes ==
    /\ authReq.pc = "next"
    /\ \E verb \in {"GET", "DELETE"}, provider \in Providers :
         platformKeys' = IF verb = "DELETE"
                         THEN deletePlatformKey(platformKeys, provider)
                         ELSE platformKeys
    /\ authReq' = [authReq EXCEPT !.pc = "handled", !.status = 200,
                                  !.handled = authReq.handled + 1]
    /\ UNCHANGED <<orgs, byokKeys, appKeys, provReqs, nextId, now,
                   reqVars, queryVars, hdrVars, serviceKeyEnv, moreVars>>

(***************************************************************************)
(* Credential tokens (lib/api-key.ts)                                      *)
(***************************************************************************)
HexLen == 2          \* length of a token's random suffix (40 in the program)

\* A token is a sequence of symbols: the family prefixes and the kind tags
\* count as one symbol each, the suffix is made of single characters.
Families == {"distrib.", "mcpf_"}
KindTags == {"usr_", "app_"}
LowerHex == {"a", "0"}
TokenAlphabet == Families \cup KindTags \cup LowerHex \cup {"g"}

RECURSIVE TokenStringsUpTo(_)
TokenStringsUpTo(n) ==
    IF n = 0 THEN {<< >>}
    ELSE LET shorter == TokenStringsUpTo(n - 1)
         IN  shorter \cup {Append(t, c) : t \in {u \in shorter : Len(u) = n - 1},
                                          c \in TokenAlphabet}

\* Every string up to one symbol longer than a token.
TokenStrings == TokenStringsUpTo(HexLen + 3)

\* randomBytes(20).toString("hex")
HexSuffixes == {h \in TokenStringsUpTo(HexLen) :
                   Len(h) = HexLen /\ \A i \in 1..Len(h) : h[i] \in LowerHex}

\* String.prototype.startsWith
startsWith(s, prefix) ==
    Len(s) >= Len(prefix) /\ \A i \in 1..Len(prefix) : s[i] = prefix[i]

\* generateApiKey(), generateAppApiKey(): the tokens they can return.
generateApiKey == {<<"distrib.", "usr_">> \o h : h \in HexSuffixes}
generateAppApiKey == {<<"distrib.", "app_">> \o h : h \in HexSuffixes}

\* The same two functions before the family was renamed.
legacyGenerateApiKey == {<<"mcpf_", "usr_">> \o h : h \in HexSuffixes}
legacyGenerateAppApiKey == {<<"mcpf_", "app_">> \o h : h \in HexSuffixes}

\* /^(distrib\.usr_|mcpf_usr_)[a-f0-9]{40}$/.test(key)
isValidApiKeyFormat(key) ==
    /\ startsWith(key, <<"distrib.", "usr_">>) \/ startsWith(key, <<"mcpf_", "usr_">>)
    /\ Len(key) = 2 + HexLen
    /\ \A i \in 3..Len(key) : key[i] \in LowerHex

isAppApiKey(key) ==
    startsWith(key, <<"distrib.", "app_">>) \/ startsWith(key, <<"mcpf_", "app_">>)

isUserApiKey(key) ==
    startsWith(key, <<"distrib.", "usr_">>) \/ startsWith(key, <<"mcpf_", "usr_">>)

hasValidPrefix(key) ==
    startsWith(key, <<"distrib.">>) \/ startsWith(key, <<"mcpf_">>)

\* createHash("sha256").update(key).digest("hex"): one digest per key.
hashApiKey(key) == <<"sha256">> \o key

\* The characters a symbol stands for.
Width(c) == IF c = "distrib." THEN 8 ELSE IF c = "mcpf_" THEN 5
            ELSE IF c \in KindTags THEN 4 ELSE 1

\* key.slice(0, n)
RECURSIVE slice(_, _)
slice(key, n) ==
    IF key = << >> \/ Width(Head(key)) > n THEN << >>
    ELSE <<Head(key)>> \o slice(Tail(key), n - Width(Head(key)))

\* key.slice(0, 12)
PrefixChars == 12
getKeyPrefix(key) == slice(key, PrefixChars)

NoClsOut == [done |-> FALSE, valid |-> FALSE, app |-> FALSE, user |-> FALSE, prefix |-> FALSE]

\* The four predicates applied to one string.
Classify ==
    /\ ~clsOut.done
    /\ clsOut' = [done |-> TRUE, valid |-> isValidApiKeyFormat(clsIn),
                  app |-> isAppApiKey(clsIn), user |-> isUserApiKey(clsIn),
                  prefix |-> hasValidPrefix(clsIn)]
    /\ UNCHANGED <<storeVars, reqVars, queryVars, hdrVars, authVars, clsIn, credVars, secVars>>

InitClass == clsIn = << >> /\ clsOut = NoClsOut

(***************************************************************************)
(* Credentials: api_keys, apps and their issuance (routes/internal.ts)     *)
(***************************************************************************)
MaxIssue == 2        \* issuance requests accepted per slot

UserIds == {"user_1", "user_2"}
KeyNames == {"Default", "ci"}
\* Names the registration schema accepts (/^[a-z0-9-]+$/).
AppNames == {"app-1", "app-2", "app-3"}

\* A last_used_at holding NULL, an encrypted_key holding NULL.
Null == -1
NoCiphertext == Sealed(<< >>, "")

\* Credentials issued before the family was renamed and before session keys
\* were stored with their ciphertext: the "Default" key of org_1 and the key
\* of app-1, neither used yet.
LegacyUserToken == <<"mcpf_", "usr_">> \o [i \in 1..HexLen |-> "a"]
LegacyAppToken == <<"mcpf_", "app_">> \o [i \in 1..HexLen |-> "a"]
InitApiKeys ==
    {[id |-> 101, orgId |-> 1, keyHash |-> hashApiKey(LegacyUserToken),
      keyPrefix |-> getKeyPrefix(LegacyUserToken), name |-> "Default",
      encryptedKey |-> NoCiphertext, lastUsedAt |-> Null]}
InitApps ==
    {[id |-> 102, name |-> "app-1", keyHash |-> hashApiKey(LegacyAppToken),
      keyPrefix |-> getKeyPrefix(LegacyAppToken)]}
InitIssued ==
    {[token |-> LegacyUserToken, kind |-> "user_key", org |-> "org_1", user |-> "user_1",
      app |-> "", id |-> 101],
     [token |-> LegacyAppToken, kind |-> "app_key", org |-> "", user |-> "",
      app |-> "app-1", id |-> 102]}

IdleIss ==
    [pc |-> "idle", kind |-> "", org |-> "", user |-> "", name |-> "", app |-> "",
     orgId |-> 0, existing |-> 0, target |-> 0, rawKey |-> << >>, n |-> 0, status |-> 0,
     key |-> << >>, id |-> 0, answers |-> {}]

\* res.json(...) or res.status(...).json(...) of an issuance handler.
\* The slot remembers what its session requests were answered.
IssRespond(p, r, status, key, id) ==
    iss' = [iss EXCEPT ![p] =
        [r EXCEPT !.pc = "done", !.status = status, !.key = key, !.id = id,
                  !.answers = IF r.kind = "session" /\ status = 200
                              THEN r.answers \cup {[org |-> r.org, user |-> r.user,
                                                    id |-> id, key |-> key]}
                              ELSE r.answers]]

\* A faulty index: it lets every insert through.
ViolatesKeyHashUniqueNever(rows, keyHash) == FALSE

\* idx_api_keys_hash, idx_apps_key_hash: would inserting the hash violate
\* the table's index?
ViolatesKeyHashUnique(rows, keyHash) == \E k \in rows : k.keyHash = keyHash

unchangedByIssuance ==
    UNCHANGED <<byokKeys, appKeys, platformKeys, provReqs, now, reqVars, queryVars,
                hdrVars, authVars, classVars, cred, credLog, secVars>>

\* POST /api-keys, POST /api-keys/session, DELETE /api-keys/:id up to
\* ensureOrg; POST /apps up to its findFirst.  The schemas have passed.
IssuanceStart(p, kinds) ==
    /\ iss[p].pc \in {"idle", "done"} /\ iss[p].n < MaxIssue
    /\ \E kind \in kinds, org \in ExternalOrgIds,
          user \in UserIds, name \in KeyNames, app \in AppNames,
          target \in {k.id : k \in apiKeys} \cup {0} :
         /\ kind = "create" \/ name = "Default"
         /\ kind \in {"create", "session"} \/ user = "user_1"
         /\ kind = "app" \/ app = "app-1"
         /\ kind = "app" => org = "org_1"
         /\ (kind = "delete") = (target # 0)
         /\ iss' = [iss EXCEPT ![p] =
                [IdleIss EXCEPT !.pc = IF kind = "app" THEN "appFind" ELSE "ensureOrgFind",
                                !.kind = kind, !.org = org, !.user = user, !.name = name,
                                !.app = app, !.target = target, !.n = iss[p].n + 1,
                                !.answers = iss[p].answers]]
    /\ UNCHANGED <<orgs, nextId, apiKeys, apps, issued>>
    /\ unchangedByIssuance

\* ensureOrg: findFirst on orgs.orgId.
IssuanceEnsureOrgFind(p) ==
    /\ iss[p].pc = "ensureOrgFind"
    /\ LET r == iss[p]
           found == {o \in orgs : o.orgId = r.org}
       IN  IF found # {}
           THEN iss' = [iss EXCEPT ![p] =
                    [r EXCEPT !.pc = r.kind, !.orgId = (CHOOSE o \in found : TRUE).id]]
           ELSE iss' = [iss EXCEPT ![p] = [r EXCEPT !.pc = "ensureOrgInsert"]]
    /\ UNCHANGED <<orgs, nextId, apiKeys, apps, issued>>
    /\ unchangedByIssuance

\* ensureOrg: insert into orgs; idx_orgs_org_id rejects a second row.
IssuanceEnsureOrgInsert(p) ==
    /\ iss[p].pc = "ensureOrgInsert"
    /\ LET r == iss[p] IN
       IF \E o \in orgs : o.orgId = r.org
       THEN /\ IssRespond(p, r, 500, << >>, 0)
            /\ UNCHANGED <<orgs, nextId>>
       ELSE /\ orgs' = orgs \cup {[id |-> nextId, orgId |-> r.org]}
            /\ nextId' = nextId + 1
            /\ iss' = [iss EXCEPT ![p] = [r EXCEPT !.pc = r.kind, !.orgId = nextId]]
    /\ UNCHANGED <<apiKeys, apps, issued>>
    /\ unchangedByIssuance

\* POST /api-keys: generate, hash, insert, answer with the raw key.
CreateApiKey(p) ==
    /\ iss[p].pc = "create"
    /\ LET r == iss[p] IN
       \E rawKey \in generateApiKey :
         IF ViolatesKeyHashUnique(apiKeys, hashApiKey(rawKey))
         THEN /\ IssRespond(p, [r EXCEPT !.rawKey = rawKey], 500, << >>, 0)
              /\ UNCHANGED <<apiKeys, nextId, issued>>
         ELSE /\ apiKeys' = apiKeys \cup
                     {[id |-> nextId, orgId |-> r.orgId, keyHash |-> hashApiKey(rawKey),
                       keyPrefix |-> getKeyPrefix(rawKey), name |-> r.name,
                       encryptedKey |-> NoCiphertext, lastUsedAt |-> Null]}
              /\ nextId' = nextId + 1
              /\ issued' = issued \cup
                     {[token |-> rawKey, kind |-> "user_key", org |-> r.org,
                       user |-> r.user, app |-> "", id |-> nextId]}
              /\ IssRespond(p, [r EXCEPT !.rawKey = rawKey], 200, rawKey, nextId)
    /\ UNCHANGED <<orgs, apps>>
    /\ unchangedByIssuance

\* DELETE /api-keys/:id: delete where id and org, 404 when nothing was deleted.
DeleteApiKey(p) ==
    /\ iss[p].pc = "delete"
    /\ LET r == iss[p]
           gone == {k \in apiKeys : k.id = r.target /\ k.orgId = r.orgId}
       IN  /\ apiKeys' = apiKeys \ gone
           /\ IssRespond(p, r, IF gone = {} THEN 404 ELSE 200, << >>, 0)
    /\ UNCHANGED <<orgs, nextId, apps, issued>>
    /\ unchangedByIssuance

\* A faulty lookup of the session key: it is never found.
findDefaultKeyNever(rows, orgId) == {}

\* findFirst on api_keys where org_id = orgId and name = "Default".
findDefaultKey(rows, orgId) == {k \in rows : k.orgId = orgId /\ k.name = "Default"}

\* POST /api-keys/session: the lookup of the org's "Default" key; a key
\* stored with its ciphertext is decrypted and returned.
SessionFind(p) ==
    /\ iss[p].pc = "session"
    /\ LET r == iss[p]
           found == findDefaultKey(apiKeys, r.orgId)
       IN  IF found = {}
           THEN iss' = [iss EXCEPT ![p] = [r EXCEPT !.pc = "sessionInsert"]]
           ELSE \E existing \in found :
                  IF existing.encryptedKey # NoCiphertext
                  THEN LET plain == decrypt(existing.encryptedKey) IN
                       IF plain.ok THEN IssRespond(p, r, 200, plain.pt, existing.id)
                       ELSE IssRespond(p, r, 500, << >>, 0)
                  ELSE iss' = [iss EXCEPT ![p] =
                           [r EXCEPT !.pc = "sessionCleanUp", !.existing = existing.id]]
    /\ UNCHANGED <<orgs, nextId, apiKeys, apps, issued>>
    /\ unchangedByIssuance

\* POST /api-keys/session: delete the "Default" key stored without ciphertext.
SessionCleanUp(p) ==
    /\ iss[p].pc = "sessionCleanUp"
    /\ apiKeys' = {k \in apiKeys : k.id # iss[p].existing}
    /\ iss' = [iss EXCEPT ![p] = [iss[p] EXCEPT !.pc = "sessionInsert"]]
    /\ UNCHANGED <<orgs, nextId, apps, issued>>
    /\ unchangedByIssuance

\* A faulty row: the ciphertext holds the prefix, not the key.
sessionKeyRowSealsPrefix(id, orgId, rawKey) ==
    [id |-> id, orgId |-> orgId, keyHash |-> hashApiKey(rawKey),
     keyPrefix |-> getKeyPrefix(rawKey), name |-> "Default",
     encryptedKey |-> Sealed(getKeyPrefix(rawKey), EncryptionKey), lastUsedAt |-> Null]

\* The values of the session key's insert: hash, prefix and ciphertext of
\* one raw key.
sessionKeyRow(id, orgId, rawKey) ==
    [id |-> id, orgId |-> orgId, keyHash |-> hashApiKey(rawKey),
     keyPrefix |-> getKeyPrefix(rawKey), name |-> "Default",
     encryptedKey |-> Sealed(rawKey, EncryptionKey), lastUsedAt |-> Null]

\* POST /api-keys/session: generate, hash, encrypt, insert, answer.
SessionInsert(p) ==
    /\ iss[p].pc = "sessionInsert"
    /\ LET r == iss[p] IN
       \E rawKey \in generateApiKey :
         IF ViolatesKeyHashUnique(apiKeys, hashApiKey(rawKey))
         THEN /\ IssRespond(p, [r EXCEPT !.rawKey = rawKey], 500, << >>, 0)
              /\ UNCHANGED <<apiKeys, nextId, issued>>
         ELSE /\ apiKeys' = apiKeys \cup {sessionKeyRow(nextId, r.orgId, rawKey)}
              /\ nextId' = nextId + 1
              /\ issued' = issued \cup
                     {[token |-> rawKey, kind |-> "user_key", org |-> r.org,
                       user |-> r.user, app |-> "", id |-> nextId]}
              /\ IssRespond(p, [r EXCEPT !.rawKey = rawKey], 200, rawKey, nextId)
    /\ UNCHANGED <<orgs, apps>>
    /\ unchangedByIssuance

\* POST /apps: findFirst on apps.name; a registered app gets no key again.
RegisterAppFind(p) ==
    /\ iss[p].pc = "appFind"
    /\ LET r == iss[p] IN
       IF \E a \in apps : a.name = r.app
       THEN IssRespond(p, r, 200, << >>, 0)
       ELSE iss' = [iss EXCEPT ![p] = [r EXCEPT !.pc = "appInsert"]]
    /\ UNCHANGED <<orgs, nextId, apiKeys, apps, issued>>
    /\ unchangedByIssuance

\* POST /apps: generate, hash, insert (idx_apps_name rejects a second row).
RegisterAppInsert(p) ==
    /\ iss[p].pc = "appInsert"
    /\ LET r == iss[p] IN
       IF \E a \in apps : a.name = r.app
       THEN /\ IssRespond(p, r, 500, << >>, 0)
            /\ UNCHANGED <<apps, nextId, issued>>
       ELSE \E rawKey \in generateAppApiKey :
              IF ViolatesKeyHashUnique(apps, hashApiKey(rawKey))
              THEN /\ IssRespond(p, [r EXCEPT !.rawKey = rawKey], 500, << >>, 0)
                   /\ UNCHANGED <<apps, nextId, issued>>
              ELSE /\ apps' = apps \cup
                          {[id |-> nextId, name |-> r.app, keyHash |-> hashApiKey(rawKey),
                            keyPrefix |-> getKeyPrefix(rawKey)]}
                   /\ nextId' = nextId + 1
                   /\ issued' = issued \cup
                          {[token |-> rawKey, kind |-> "app_key", org |-> "", user |-> "",
                            app |-> r.app, id |-> nextId]}
                   /\ IssRespond(p, [r EXCEPT !.rawKey = rawKey], 200, rawKey, nextId)
    /\ UNCHANGED <<orgs, apiKeys>>
    /\ unchangedByIssuance

IssuanceKinds == {"create", "session", "delete", "app"}

Issuance(p) ==
    \/ IssuanceStart(p, IssuanceKinds) \/ IssuanceEnsureOrgFind(p) \/ IssuanceEnsureOrgInsert(p)
    \/ CreateApiKey(p) \/ DeleteApiKey(p)
    \/ SessionFind(p) \/ SessionCleanUp(p) \/ SessionInsert(p)
    \/ RegisterAppFind(p) \/ RegisterAppInsert(p)

(***************************************************************************)
(* apiKeyAuth (middleware/auth.ts)                                         *)
(***************************************************************************)
MaxAuth == 2         \* requests sent through apiKeyAuth

\* The Authorization header of a request: absent, a bare token, or the
\* scheme ("Bearer " is one symbol) followed by a token.
NoHeader == <<"undefined">>
BearerScheme == "Bearer "

\* Tokens no endpoint has issued: two of the right shape, three not.
UnknownTokens ==
    {<<"mcpf_", "usr_">> \o [i \in 1..HexLen |-> "0"],
     <<"mcpf_", "app_">> \o [i \in 1..HexLen |-> "0"],
     <<"mcpf_", "g">>, <<"g">>, << >>}

NoCred ==
    [pc |-> "none", header |-> NoHeader, key |-> << >>, found |-> 0, status |-> 0,
     error |-> "", authType |-> "", orgId |-> 0, userId |-> "", appId |-> "",
     touched |-> 0,
     faulted |-> FALSE, n |-> 0]

\* res.status(401).json({ error }) of apiKeyAuth.
CredReject(r, error, faulted) ==
    /\ cred' = [r EXCEPT !.pc = "rejected", !.status = 401, !.error = error,
                         !.faulted = faulted]
    /\ credLog' = credLog \cup {[key |-> r.key, status |-> 401, error |-> error]}

unchangedByApiKeyAuth ==
    UNCHANGED <<orgs, byokKeys, appKeys, platformKeys, provReqs, nextId, now, reqVars,
                queryVars, hdrVars, authVars, classVars, apps, iss, issued, secVars>>

\* authHeader.slice(7)
sliceBearer(header) == Tail(header)

\* key.startsWith("mcpf_")
hasLegacyPrefix(key) == startsWith(key, <<"mcpf_">>)

\* apiKeyAuth up to its first query: the header and the format check.
ApiKeyAuthStart ==
    /\ cred.pc \in {"none", "next", "rejected"} /\ cred.n < MaxAuth
    /\ \E token \in {i.token : i \in issued} \cup UnknownTokens,
          shape \in {"bearer", "bare", "absent"} :
         /\ shape = "bearer" \/ token = << >>
         /\ LET header == IF shape = "absent" THEN NoHeader
                          ELSE IF shape = "bare" THEN <<"g">>
                          ELSE <<BearerScheme>> \o token
                r == [NoCred EXCEPT !.header = header, !.n = cred.n + 1]
            IN  IF header = NoHeader \/ ~startsWith(header, <<BearerScheme>>)
                THEN CredReject(r, "Missing authorization header", FALSE)
                ELSE LET key == sliceBearer(header)
                         q == [r EXCEPT !.key = key]
                     IN  IF ~hasLegacyPrefix(key)
                         THEN CredReject(q, "Invalid API key format", FALSE)
                         ELSE /\ cred' = [q EXCEPT !.pc = IF isAppApiKey(key)
                                                          THEN "appLookup" ELSE "userLookup"]
                              /\ UNCHANGED credLog
    /\ UNCHANGED apiKeys
    /\ unchangedByApiKeyAuth

\* The app branch: findFirst on apps.keyHash, then next().
ApiKeyAuthAppLookup ==
    /\ cred.pc = "appLookup"
    /\ \E fault \in BOOLEAN :
         LET found == {a \in apps : a.keyHash = hashApiKey(cred.key)} IN
         IF fault THEN CredReject(cred, "Authentication failed", TRUE)
         ELSE IF found = {} THEN CredReject(cred, "Invalid API key", FALSE)
         ELSE /\ cred' = [cred EXCEPT !.pc = "next", !.authType = "app_key",
                              !.appId = (CHOOSE a \in found : TRUE).name,
                              !.found = (CHOOSE a \in found : TRUE).id]
              /\ UNCHANGED credLog
    /\ UNCHANGED apiKeys
    /\ unchangedByApiKeyAuth

\* The user branch: findFirst on api_keys.keyHash.
ApiKeyAuthUserLookup ==
    /\ cred.pc = "userLookup"
    /\ \E fault \in BOOLEAN :
         LET found == {k \in apiKeys : k.keyHash = hashApiKey(cred.key)} IN
         IF fault THEN CredReject(cred, "Authentication failed", TRUE)
         ELSE IF found = {} THEN CredReject(cred, "Invalid API key", FALSE)
         ELSE /\ cred' = [cred EXCEPT !.pc = "touch",
                              !.found = (CHOOSE k \in found : TRUE).id,
                              !.orgId = (CHOOSE k \in found : TRUE).orgId]
              /\ UNCHANGED credLog
    /\ UNCHANGED apiKeys
    /\ unchangedByApiKeyAuth

\* update api_keys set last_used_at = now where id = apiKey.id
touchLastUsed(rows, id, at) ==
    {IF k.id = id THEN [k EXCEPT !.lastUsedAt = at] ELSE k : k \in rows}

\* The user branch: the last-used update, then next().
ApiKeyAuthTouch ==
    /\ cred.pc = "touch"
    /\ \E fault \in BOOLEAN :
         IF fault
         THEN /\ CredReject([cred EXCEPT !.orgId = 0], "Authentication failed", TRUE)
              /\ UNCHANGED apiKeys
         ELSE /\ apiKeys' = touchLastUsed(apiKeys, cred.found, now)
              /\ cred' = [cred EXCEPT !.pc = "next", !.authType = "user_key",
                              !.touched = cred.found]
              /\ UNCHANGED credLog
    /\ unchangedByApiKeyAuth

ApiKeyAuth ==
    ApiKeyAuthStart \/ ApiKeyAuthAppLookup \/ ApiKeyAuthUserLookup \/ ApiKeyAuthTouch

InitCred ==
    /\ apiKeys = InitApiKeys /\ apps = InitApps /\ issued = InitIssued
    /\ iss = [p \in Slots |-> IdleIss] /\ cred = NoCred /\ credLog = {}

(***************************************************************************)
(* Storing and deleting secrets (routes/internal.ts)                       *)
(***************************************************************************)
MaxOps == 2          \* store and delete requests accepted per slot

Plaintexts == {"sk-ant-secret123", "sk-new"}

\* The provider secrets are stored and deleted for, and a provider that is
\* not in VALID_PROVIDERS.
StoredProviders == {"anthropic"}
UnlistedProviders == {"openai"}
SecretTables == {"byok", "app", "platform"}

\* encrypt(plaintext): sealed under ENCRYPTION_KEY.
encrypt(pt) == Sealed(pt, EncryptionKey)

IdleOp ==
    [pc |-> "idle", verb |-> "", table |-> "", owner |-> "", orgId |-> 0, provider |-> "",
     value |-> "", existing |-> 0, n |-> 0, status |-> 0]

\* The owners a table's rows can have.
OwnersOf(table) ==
    IF table = "byok" THEN ExternalOrgIds ELSE IF table = "app" THEN AppIds ELSE {""}

\* res.json(...) or res.status(...).json(...) of a store or delete handler.
OpRespond(p, r, status) ==
    ops' = [ops EXCEPT ![p] = [r EXCEPT !.pc = "done", !.status = status]]

\* The last request answered 200 for a natural key, and what it stored.
LogOp(log, r, state) ==
    {e \in log : ~(e.table = r.table /\ e.owner = r.owner /\ e.provider = r.provider)}
        \cup {[table |-> r.table, owner |-> r.owner, provider |-> r.provider,
               state |-> state, value |-> IF state = "stored" THEN r.value ELSE ""]}

unchangedBySecretOps ==
    UNCHANGED <<provReqs, now, reqVars, queryVars, hdrVars, authVars, classVars, credVars>>

\* POST and DELETE of /keys, /app-keys and /platform-keys, up to the first
\* await; the schemas have passed.  DELETE /keys/:provider refuses a provider
\* that is not in VALID_PROVIDERS.
SecretStart(p, verbs, quota) ==
    /\ ops[p].pc \in {"idle", "done"} /\ ops[p].n < quota
    /\ \E verb \in verbs, table \in SecretTables,
          provider \in StoredProviders \cup UnlistedProviders, value \in Plaintexts :
         \E owner \in OwnersOf(table) :
           /\ verb = "store" \/ value = "sk-new"
           /\ provider \in UnlistedProviders =>
                 verb = "delete" /\ table = "byok" /\ owner = "org_1"
           /\ LET r == [IdleOp EXCEPT !.verb = verb, !.table = table, !.owner = owner,
                                      !.provider = provider, !.value = value,
                                      !.n = ops[p].n + 1]
              IN  IF provider \in UnlistedProviders
                  THEN OpRespond(p, r, 400)
                  ELSE ops' = [ops EXCEPT ![p] =
                           [r EXCEPT !.pc = IF table = "byok" THEN "ensureOrgFind"
                                            ELSE verb]]
    /\ UNCHANGED <<storeVars, secLog>>
    /\ unchangedBySecretOps

\* ensureOrg: findFirst on orgs.orgId.
SecretEnsureOrgFind(p) ==
    /\ ops[p].pc = "ensureOrgFind"
    /\ LET r == ops[p]
           found == {o \in orgs : o.orgId = r.owner}
       IN  IF found # {}
           THEN ops' = [ops EXCEPT ![p] =
                    [r EXCEPT !.pc = r.verb, !.orgId = (CHOOSE o \in found : TRUE).id]]
           ELSE ops' = [ops EXCEPT ![p] = [r EXCEPT !.pc = "ensureOrgInsert"]]
    /\ UNCHANGED <<storeVars, secLog>>
    /\ unchangedBySecretOps

\* ensureOrg: insert into orgs; idx_orgs_org_id rejects a second row.
SecretEnsureOrgInsert(p) ==
    /\ ops[p].pc = "ensureOrgInsert"
    /\ LET r == ops[p] IN
       IF \E o \in orgs : o.orgId = r.owner
       THEN /\ OpRespond(p, r, 500)
            /\ UNCHANGED <<orgs, nextId>>
       ELSE /\ orgs' = orgs \cup {[id |-> nextId, orgId |-> r.owner]}
            /\ nextId' = nextId + 1
            /\ ops' = [ops EXCEPT ![p] = [r EXCEPT !.pc = r.verb, !.orgId = nextId]]
    /\ UNCHANGED <<byokKeys, appKeys, platformKeys, secLog>>
    /\ unchangedBySecretOps

\* The rows of the request's table carrying its natural key.
SecretRows(r) ==
    IF r.table = "byok"
    THEN {k \in byokKeys : k.orgId = r.orgId /\ k.provider = r.provider}
    ELSE IF r.table = "app"
    THEN {k \in appKeys : k.appId = r.owner /\ k.provider = r.provider}
    ELSE {k \in platformKeys : k.provider = r.provider}

\* The upsert's findFirst: the id of the row found, 0 for undefined.
SecretFind(p) ==
    /\ ops[p].pc = "store"
    /\ LET r == ops[p] IN
       ops' = [ops EXCEPT ![p] =
           [r EXCEPT !.pc = "write",
                     !.existing = IF SecretRows(r) = {} THEN 0
                                  ELSE (CHOOSE k \in SecretRows(r) : TRUE).id]]
    /\ UNCHANGED <<storeVars, secLog>>
    /\ unchangedBySecretOps

\* A faulty index: it lets every insert through.
ViolatesSecretUniqueNever(r) == FALSE

\* The uniqueness of platform_keys.provider: would the insert violate it?
ViolatesPlatformUnique(r) == SecretRows(r) # {}

\* idx_byok_org_provider, idx_app_keys_app_provider: would inserting the
\* natural key violate the table's index?
ViolatesSecretUnique(r) ==
    IF r.table = "platform" THEN ViolatesPlatformUnique(r) ELSE SecretRows(r) # {}

\* A faulty update: the row keeps the value it had.
setEncryptedKeyKeep(rows, id, enc) == rows

\* update ... set encrypted_key = enc where id = id
setEncryptedKey(rows, id, enc) ==
    {IF k.id = id THEN [k EXCEPT !.encryptedKey = enc] ELSE k : k \in rows}

\* The upsert's update or insert, then the answer.
SecretWrite(p) ==
    /\ ops[p].pc = "write"
    /\ LET r == ops[p]
           enc == encrypt(r.value)
       IN  IF r.existing # 0
           THEN /\ byokKeys' = IF r.table = "byok"
                               THEN setEncryptedKey(byokKeys, r.existing, enc) ELSE byokKeys
                /\ appKeys' = IF r.table = "app"
                              THEN setEncryptedKey(appKeys, r.existing, enc) ELSE appKeys
                /\ platformKeys' = IF r.table = "platform"
                                   THEN setEncryptedKey(platformKeys, r.existing, enc)
                                   ELSE platformKeys
                /\ UNCHANGED nextId
                /\ secLog' = LogOp(secLog, r, "stored")
                /\ OpRespond(p, r, 200)
           ELSE IF ViolatesSecretUnique(r)
           THEN /\ UNCHANGED <<byokKeys, appKeys, platformKeys, nextId, secLog>>
                /\ OpRespond(p, r, 500)
           ELSE /\ byokKeys' = IF r.table = "byok"
                               THEN byokKeys \cup {[id |-> nextId, orgId |-> r.orgId,
                                                    provider |-> r.provider,
                                                    encryptedKey |-> enc]}
                               ELSE byokKeys
                /\ appKeys' = IF r.table = "app"
                              THEN appKeys \cup {[id |-> nextId, appId |-> r.owner,
                                                  provider |-> r.provider,
                                                  encryptedKey |-> enc]}
                              ELSE appKeys
                /\ platformKeys' = IF r.table = "platform"
                                   THEN platformKeys \cup {[id |-> nextId,
                                                            provider |-> r.provider,
                                                            encryptedKey |-> enc]}
                                   ELSE platformKeys
                /\ nextId' = nextId + 1
                /\ secLog' = LogOp(secLog, r, "stored")
                /\ OpRespond(p, r, 200)
    /\ UNCHANGED orgs
    /\ unchangedBySecretOps

\* A faulty delete: with no row matching it empties the table.
deleteSecretRowsOrAll(rows, gone) == IF gone = {} THEN {} ELSE rows \ gone

\* delete from the table where the natural key matches
deleteSecretRows(rows, gone) == rows \ gone

\* DELETE /keys/:provider, /app-keys/:provider, /platform-keys/:provider.
SecretDelete(p) ==
    /\ ops[p].pc = "delete"
    /\ LET r == ops[p] IN
       /\ byokKeys' = IF r.table = "byok"
                      THEN deleteSecretRows(byokKeys, SecretRows(r)) ELSE byokKeys
       /\ appKeys' = IF r.table = "app"
                     THEN deleteSecretRows(appKeys, SecretRows(r)) ELSE appKeys
       /\ platformKeys' = IF r.table = "platform"
                          THEN deletePlatformKey(platformKeys, r.provider) ELSE platformKeys
       /\ secLog' = LogOp(secLog, r, "deleted")
       /\ OpRespond(p, r, 200)
    /\ UNCHANGED <<orgs, nextId>>
    /\ unchangedBySecretOps

InitSec == ops = [p \in Slots |-> IdleOp] /\ secLog = {}

\* The variables no decrypt-class request involves, before any request.
InitMore == InitClass /\ InitCred /\ InitSec

(***************************************************************************)
(* Specifications                                                          *)
(***************************************************************************)
InitStore ==
    /\ orgs = InitOrgs /\ byokKeys = InitByokKeys /\ appKeys = InitAppKeys
    /\ platformKeys = InitPlatformKeys /\ provReqs = {}
    /\ nextId = FirstFreeId /\ now = 0

InitReqs == reqs = [p \in Slots |-> IdleReq] /\ lastResp = NoResp /\ served = 0

InitQuery == query = IdleQuery
InitHdr == hdrIn = IdleHdrIn /\ hdrOut = NoHdrOut
InitAuth == serviceKeyEnv = Absent /\ authReq = NoAuthReq

Init == InitStore /\ InitReqs /\ InitQuery /\ InitHdr /\ InitAuth /\ InitMore

Handle(p, quota) ==
    \/ ByokDecryptStart(p, quota) \/ AppDecryptStart(p, quota)
    \/ PlatformDecryptStart(p, quota) \/ ValidateKeyStart(p, quota)
    \/ EnsureOrgFind(p) \/ EnsureOrgInsert(p)
    \/ SecretLookup(p) \/ RecordFind(p) \/ RecordWrite(p)

Next == \E p \in Slots : Handle(p, MaxServed)

\* Decrypt-class requests served concurrently.
Spec == Init /\ [][Next]_vars

\* The same requests served one after the other.
NextSeq == Tick \/ Handle(1, MaxCalls)
SpecSeq == Init /\ [][NextSeq]_vars

\* The query handler over every table the recorded headers can have built.
InitTables ==
    /\ \E pairs \in SUBSET RecordableRows : provReqs = TableOf(pairs, {}, FirstFreeId)
    /\ nextId = FirstFreeId + Cardinality(provReqs)
    /\ orgs = InitOrgs /\ byokKeys = InitByokKeys /\ appKeys = InitAppKeys
    /\ platformKeys = InitPlatformKeys /\ now = 0
InitQuerySpec == InitTables /\ InitReqs /\ InitQuery /\ InitHdr /\ InitAuth /\ InitMore
NextQuery == QueryStart \/ QueryEndpoint
SpecQuery == InitQuerySpec /\ [][NextQuery]_vars

\* extractCallerHeaders over every combination of header values.
InitHeaders == hdrIn \in HeaderValues \X HeaderValues \X HeaderValues /\ hdrOut = NoHdrOut
InitHeadersSpec == InitStore /\ InitReqs /\ InitQuery /\ InitHeaders /\ InitAuth /\ InitMore
NextHeaders == ExtractHeaders
SpecHeaders == InitHeadersSpec /\ [][NextHeaders]_vars

\* One request through serviceKeyAuth, under every configured key.
InitAuthSpec ==
    /\ InitStore /\ InitReqs /\ InitQuery /\ InitHdr
    /\ serviceKeyEnv \in EnvValues /\ authReq = NoAuthReq /\ InitMore
NextAuth == InternalRequest \/ InternalRoutes
SpecAuth == InitAuthSpec /\ [][NextAuth]_vars

\* The four predicates of lib/api-key.ts over every short string.
InitClassSpec ==
    /\ InitStore /\ InitReqs /\ InitQuery /\ InitHdr /\ InitAuth
    /\ clsIn \in TokenStrings /\ clsOut = NoClsOut /\ InitCred /\ InitSec
NextClassify == Classify
SpecClassify == InitClassSpec /\ [][NextClassify]_vars

\* Credentials issued and revoked one request at a time while requests go
\* through apiKeyAuth.
NextCred == Issuance(1) \/ ApiKeyAuth
SpecCred == Init /\ [][NextCred]_vars

\* Credentials issued and revoked one request at a time.
NextIssue == Issuance(1)
SpecIssue == Init /\ [][NextIssue]_vars

\* Session requests served concurrently.
SessionRequest(p) ==
    \/ IssuanceStart(p, {"session"}) \/ IssuanceEnsureOrgFind(p)
    \/ IssuanceEnsureOrgInsert(p)
    \/ SessionFind(p) \/ SessionCleanUp(p) \/ SessionInsert(p)
NextSession == \E p \in Slots : SessionRequest(p)
SpecSession == Init /\ [][NextSession]_vars

\* App registrations served concurrently.
Registration(p) ==
    IssuanceStart(p, {"app"}) \/ RegisterAppFind(p) \/ RegisterAppInsert(p)
NextApps == \E p \in Slots : Registration(p)
SpecApps == Init /\ [][NextApps]_vars

\* Session requests served one after the other.
NextSessionSeq == SessionRequest(1)
SpecSessionSeq == Init /\ [][NextSessionSeq]_vars

\* Secrets stored, deleted and decrypted one request after the other, the
\* decrypt requests carrying complete caller headers and naming a provider
\* secrets are stored for.
SecretOp(p) ==
    \/ SecretStart(p, {"store", "delete"}, MaxCalls - served)
    \/ SecretEnsureOrgFind(p) \/ SecretEnsureOrgInsert(p)
    \/ SecretFind(p) \/ SecretWrite(p) \/ SecretDelete(p)
DecryptRequest(p) ==
    \/ /\ \/ ByokDecryptStart(p, MaxCalls - ops[p].n)
          \/ AppDecryptStart(p, MaxCalls - ops[p].n)
          \/ PlatformDecryptStart(p, MaxCalls - ops[p].n)
       /\ reqs'[p].pc # "idle" /\ reqs'[p].provider \in StoredProviders
    \/ EnsureOrgFind(p) \/ EnsureOrgInsert(p)
    \/ SecretLookup(p) \/ RecordFind(p) \/ RecordWrite(p)
NextSecrets ==
    \/ reqs[1].pc = "idle" /\ SecretOp(1)
    \/ ops[1].pc \in {"idle", "done"} /\ DecryptRequest(1)
SpecSecrets == Init /\ [][NextSecrets]_vars

\* Secrets stored concurrently.
RECURSIVE OpsAccepted(_)
OpsAccepted(slots) ==
    IF slots = {} THEN 0
    ELSE LET p == CHOOSE q \in slots : TRUE IN ops[p].n + OpsAccepted(slots \ {p})
StoreRequest(p) ==
    \/ SecretStart(p, {"store"}, MaxOps - OpsAccepted(Slots \ {p}))
    \/ SecretEnsureOrgFind(p) \/ SecretEnsureOrgInsert(p)
    \/ SecretFind(p) \/ SecretWrite(p)
NextStore == \E p \in Slots : StoreRequest(p)
SpecStore == Init /\ [][NextStore]_vars

(***************************************************************************)
(* Properties of recordProviderRequirement and the decrypt-class handlers  *)
(***************************************************************************)
\* The columns of idx_provider_req_unique.
TupleOf(r) == <<r.service, r.method, r.path, r.provider>>

\* C1 (Spec): recordProviderRequirement is atomic with respect to the unique
\* 4-tuple: however concurrent first observations of one 4-tuple interleave,
\* no call fails on the uniqueness constraint, and the tuple has one row.
C1_AtomicUpsert ==
    /\ lastResp.cause # "provider_requirements_unique"
    /\ \A r1, r2 \in provReqs : TupleOf(r1) = TupleOf(r2) => r1 = r2

\* C2 (SpecSeq): calls served one after the other: every call that reaches
\* the write leaves exactly one row for its 4-tuple and never fails on the
\* uniqueness constraint, and no step makes a row's last_seen_at decrease.
C2_SequentialUpsert ==
    [][/\ \A r \in provReqs :
             \E r2 \in provReqs' : r2.id = r.id /\ r2.lastSeenAt >= r.lastSeenAt
       /\ (reqs[1].pc = "recordWrite" /\ reqs'[1].pc = "idle") =>
             /\ lastResp'.cause # "provider_requirements_unique"
             /\ Cardinality(RowsFor(provReqs', reqs[1].caller, reqs[1].provider)) = 1
      ]_vars

\* C2 is exercised: a third call of one endpoint and provider has updated the
\* single row to a later last_seen_at than it was created with.
C2_Witness ==
    /\ served = 3 /\ lastResp.wrote = "update" /\ lastResp.status = 200
    /\ Cardinality(provReqs) = 1
    /\ \E r \in provReqs : r.lastSeenAt > r.createdAt

\* C3 (Spec): in each of the four decrypt-class handlers, a request whose
\* secret lookup finds no row ends there with 404: it never goes on to
\* recordProviderRequirement and has written no provider_requirements row.
C3_NotFoundNeverRecords ==
    /\ \A p \in Slots : reqs[p].lookup # "miss"
    /\ lastResp.lookup = "miss" =>
          /\ lastResp.status = 404
          /\ lastResp.wrote = "none"
          /\ lastResp.route \in Routes

\* C3 is exercised: /validate/keys/firecrawl answered 404 while the row another
\* request recorded stays the only one.
C3_Witness ==
    /\ lastResp.route = "validate" /\ lastResp.lookup = "miss" /\ lastResp.status = 404
    /\ Cardinality(provReqs) = 1

\* C4 (Spec): a decrypt-class request with a caller header absent or blank is
\* answered 400 by the handler before any lookup in the secrets tables, and
\* writes no provider_requirements row.
C4_BlankCallerRejectedFirst ==
    /\ \A p \in Slots : reqs[p].pc # "idle" => ~reqs[p].blank
    /\ lastResp.blank =>
          /\ lastResp.status = 400
          /\ lastResp.lookup = "none"
          /\ lastResp.wrote = "none"

\* C4 is exercised: the BYOK handler refused a request for its caller headers.
C4_Witness ==
    /\ lastResp.blank /\ lastResp.route = "byok" /\ lastResp.status = 400
    /\ lastResp.error =
          "Missing required headers: X-Caller-Service, X-Caller-Method, X-Caller-Path"

\* C5 (Spec): recordProviderRequirement runs only for a request that
\* succeeds: a request that does not end with 200, one that fails decrypting
\* the stored ciphertext in particular, has written no provider_requirements row.
C5_RecordOnlyOnSuccess ==
    lastResp.status # 200 => lastResp.wrote = "none"

(***************************************************************************)
(* Properties of the query                                                 *)
(***************************************************************************)
\* An endpoint normalized as record normalizes caller headers, and as the
\* specification of the query words it.
RecordNormalized(e) == extractCallerHeaders(Str(e.service), Str(e.method), Str(e.path))

\* The stored rows equal to one of the endpoints normalized as record does.
MatchedAsRecorded ==
    {r \in provReqs : \E i \in 1..Len(query.endpoints) :
        LET c == RecordNormalized(query.endpoints[i]) IN
        c.ok /\ r.service = c.service /\ r.method = c.method /\ r.path = c.path}

\* The stored rows equal to one of the endpoints with the case of service and
\* method folded and nothing trimmed.
MatchedCaseFolded ==
    {r \in provReqs : \E i \in 1..Len(query.endpoints) :
        LET e == query.endpoints[i] IN
        /\ r.service = toLowerCase(e.service) /\ r.method = toUpperCase(e.method)
        /\ r.path = e.path}

\* The response holds exactly the rows matched, and their provider names
\* once each in ascending order.
Answers(matched) ==
    /\ {query.results[k] : k \in 1..Len(query.results)} = {ResultItem(r) : r \in matched}
    /\ {query.providers[k] : k \in 1..Len(query.providers)} = {r.provider : r \in matched}
    /\ \A j, k \in 1..Len(query.providers) :
          j < k => ProviderRank[query.providers[j]] < ProviderRank[query.providers[k]]

\* C6 (SpecQuery): for any stored rows and any valid list of endpoints the
\* query answers 200 with exactly the stored rows whose (service, method,
\* path) equals one of the endpoints after normalization, and with the
\* ascending list without duplicates of their providers.
C6_QueryReturnsMatches ==
    query.pc = "done" =>
        /\ query.status = IF ParsesRequest(query.endpoints) THEN 200 ELSE 400
        /\ query.status = 200 => Answers(MatchedAsRecorded)

\* What of C6 holds of the handler: the same, with the endpoints only
\* case-folded.
QueryReturnsCaseFoldedMatches ==
    query.pc = "done" =>
        /\ query.status = IF ParsesRequest(query.endpoints) THEN 200 ELSE 400
        /\ query.status = 200 => Answers(MatchedCaseFolded)

\* C7 (SpecQuery): the query normalizes an endpoint exactly as record does:
\* for raw (service, method, path) that extractCallerHeaders accepts, every
\* row recorded from them is returned by a query carrying the same raw values.
C7_QueryNormalizesAsRecord ==
    (query.pc = "done" /\ query.status = 200) =>
        \A i \in 1..Len(query.endpoints) :
            LET c == RecordNormalized(query.endpoints[i]) IN
            c.ok => \A provider \in Providers :
                       \A r \in RowsFor(provReqs, c, provider) :
                          \E k \in 1..Len(query.results) : query.results[k] = ResultItem(r)

(***************************************************************************)
(* Properties of extractCallerHeaders                                      *)
(***************************************************************************)
\* t is s without its leading and trailing whitespace.
IsTrimmed(t, s) ==
    \E i \in 1..(Len(s) + 1), j \in 0..Len(s) :
        /\ t = [k \in 1..(IF j < i THEN 0 ELSE j - i + 1) |-> s[i + k - 1]]
        /\ \A k \in 1..Len(s) : (k < i \/ k > j) => s[k] \in WhiteSpace
        /\ t # << >> => (t[1] \notin WhiteSpace /\ t[Len(t)] \notin WhiteSpace)

\* C8 (SpecHeaders): extractCallerHeaders returns null iff one of the three
\* headers is absent, not a string, or empty once trimmed; otherwise it
\* returns the service trimmed and lower-cased, the method trimmed and
\* upper-cased, and the path trimmed with its case kept.
C8_ExtractCallerHeaders ==
    hdrOut.done =>
        IF IsBlank(hdrIn[1]) \/ IsBlank(hdrIn[2]) \/ IsBlank(hdrIn[3])
        THEN hdrOut.caller = NoCaller
        ELSE /\ hdrOut.caller.ok
             /\ \E t \in Strings : /\ IsTrimmed(t, hdrIn[1].v)
                                   /\ hdrOut.caller.service = toLowerCase(t)
             /\ \E t \in Strings : /\ IsTrimmed(t, hdrIn[2].v)
                                   /\ hdrOut.caller.method = toUpperCase(t)
             /\ IsTrimmed(hdrOut.caller.path, hdrIn[3].v)

\* C8 is exercised: padded headers in the wrong case came out normalized.
C8_Witness ==
    /\ hdrOut.done
    /\ hdrIn = <<Str(<<" ", "A">>), Str(<<"a", " ">>), Str(<<"A", " ">>)>>
    /\ hdrOut.caller = [ok |-> TRUE, service |-> <<"a">>, method |-> <<"A">>, path |-> <<"A">>]

(***************************************************************************)
(* Properties of serviceKeyAuth                                            *)
(***************************************************************************)
\* C9 (SpecAuth): serviceKeyAuth fails closed: with no key configured every
\* request is answered 500 "Service not configured" and the router never
\* runs; with a key configured, a request whose key is missing or differs is
\* answered 401 "Invalid service key".
C9_FailsClosed ==
    authReq.pc # "none" =>
        LET provided == providedKey(authReq.xApiKey, authReq.authorization) IN
        /\ ~Truthy(serviceKeyEnv) =>
              /\ authReq.pc = "rejected" /\ authReq.handled = 0
              /\ authReq.status = 500 /\ authReq.error = "Service not configured"
        /\ (Truthy(serviceKeyEnv) /\ (~Truthy(provided) \/ provided.v # serviceKeyEnv.v)) =>
              /\ authReq.pc = "rejected" /\ authReq.handled = 0
              /\ authReq.status = 401 /\ authReq.error = "Invalid service key"
        /\ (Truthy(serviceKeyEnv) /\ authReq.xApiKey = Absent /\ authReq.authorization = Absent) =>
              authReq.status = 401

\* C9 is exercised: without a configured key, a request carrying a key was
\* answered 500.
C9_Witness ==
    /\ serviceKeyEnv = Absent /\ authReq.xApiKey = Str(<<"s">>)
    /\ authReq.pc = "rejected" /\ authReq.status = 500

\* C10 (SpecAuth): serviceKeyAuth compares the configured and the supplied
\* key after trimming both: a request whose supplied key, trimmed, equals the
\* configured key, trimmed, is accepted.
C10_TrimsBeforeComparing ==
    LET provided == providedKey(authReq.xApiKey, authReq.authorization) IN
    (/\ authReq.pc # "none"
     /\ serviceKeyEnv.t = "string" /\ trim(serviceKeyEnv.v) # << >>
     /\ provided.t = "string" /\ trim(provided.v) = trim(serviceKeyEnv.v))
    => authReq.pc \in {"next", "handled"}

\* C11 (SpecAuth): a request carrying an x-api-key is decided on that value
\* alone, whatever its authorization header says: it is accepted iff the
\* x-api-key is the configured key.  The authorization header decides only
\* when x-api-key is absent (or carries the empty string).
C11_ApiKeyHeaderTakesPrecedence ==
    (authReq.pc # "none" /\ Truthy(serviceKeyEnv)) =>
        LET accepted == authReq.pc \in {"next", "handled"} IN
        IF Truthy(authReq.xApiKey)
        THEN accepted <=> (authReq.xApiKey.t = "string"
                           /\ authReq.xApiKey.v = serviceKeyEnv.v)
        ELSE accepted <=> (authReq.authorization.t = "string"
                           /\ StripBearer(authReq.authorization.v) = serviceKeyEnv.v)

\* C11 is exercised: the right x-api-key beside a wrong bearer key was accepted.
C11_Witness ==
    /\ serviceKeyEnv = Str(<<"s">>) /\ authReq.xApiKey = Str(<<"s">>)
    /\ authReq.authorization = Str(<<"Bearer", " ", "x">>)
    /\ authReq.pc = "handled"

WellFormedToken(key) ==
    \E f \in Families, k \in KindTags, h \in HexSuffixes : key = <<f, k>> \o h

IssuableTokens ==
    generateApiKey \cup legacyGenerateApiKey \cup generateAppApiKey
        \cup legacyGenerateAppApiKey

\* What the predicates report for a string: "app", "user", or "ill-formed".
Classified(out) ==
    IF out.app /\ ~out.user THEN "app"
    ELSE IF out.user /\ ~out.app THEN "user"
    ELSE IF ~out.app /\ ~out.user THEN "ill-formed"
    ELSE "both"

\* C16: classification is total and exact: a token of generateApiKey (either
\* family) is reported user, a token of generateAppApiKey (either family) is
\* reported app, and every string that is not <family>.<kind>_<hex> is
\* reported ill-formed, neither app nor user.
C16_ClassificationExact ==
    clsOut.done =>
        /\ clsIn \in generateApiKey \cup legacyGenerateApiKey
             => Classified(clsOut) = "user"
        /\ clsIn \in generateAppApiKey \cup legacyGenerateAppApiKey
             => Classified(clsOut) = "app"
        /\ ~WellFormedToken(clsIn) => Classified(clsOut) = "ill-formed"

\* What holds of the predicates: issued tokens are reported with their kind
\* and no string is reported both app and user.
GeneratedTokensClassified ==
    clsOut.done =>
        /\ clsIn \in generateApiKey \cup legacyGenerateApiKey
             => Classified(clsOut) = "user" /\ clsOut.valid
        /\ clsIn \in generateAppApiKey \cup legacyGenerateAppApiKey
             => Classified(clsOut) = "app"
        /\ Classified(clsOut) # "both"
        /\ WellFormedToken(clsIn) <=> clsIn \in IssuableTokens

\* A string with an app prefix and a suffix that is not hex has been classified.
C16_Witness ==
    clsOut.done /\ clsIn = <<"distrib.", "app_", "g">>

\* The row an issued credential was stored in is still there.
RowExists(i) ==
    IF i.kind = "app_key" THEN \E a \in apps : a.id = i.id
    ELSE \E k \in apiKeys : k.id = i.id

\* The request apiKeyAuth has answered presented the raw token of i and met
\* no store fault.
Presented(i) ==
    /\ cred.pc \in {"next", "rejected"} /\ ~cred.faulted
    /\ cred.header = <<BearerScheme>> \o i.token

\* The identity on the request is the one i was issued for.
ResolvesTo(i) ==
    /\ cred.pc = "next" /\ cred.authType = i.kind
    /\ IF i.kind = "app_key" THEN cred.appId = i.app
       ELSE /\ \E o \in orgs : o.id = cred.orgId /\ o.orgId = i.org
            /\ cred.userId = i.user

\* C13: every credential issued by the create-key, session or registration
\* endpoint, while its row is not deleted, resolves through apiKeyAuth to
\* exactly the identity it was issued for (org and user, or app name) with
\* the matching kind.
C13_IssuedCredentialResolves ==
    \A i \in issued : Presented(i) /\ RowExists(i) => ResolvesTo(i)

\* What holds: a credential of the "mcpf_" family resolves to its org, or to
\* its app, with the matching kind.
LegacyCredentialResolvesOrg ==
    \A i \in issued :
        Presented(i) /\ RowExists(i) /\ hasLegacyPrefix(i.token) =>
            /\ cred.pc = "next" /\ cred.authType = i.kind
            /\ IF i.kind = "app_key" THEN cred.appId = i.app
               ELSE \E o \in orgs : o.id = cred.orgId /\ o.orgId = i.org

\* A key the create-key or session endpoint has just issued is presented
\* and refused.
C13_Witness ==
    \E i \in issued :
        /\ Presented(i) /\ RowExists(i) /\ i.token \in generateApiKey
        /\ cred.pc = "rejected"

\* The refusals of requests that carried a bearer token and met no store fault.
TokenRefusals ==
    {e \in credLog : e.error \notin {"Missing authorization header", "Authentication failed"}}

\* C14: apiKeyAuth answers an ill-formed token and a well-formed token that
\* is not found with one uniform "invalid credential" outcome: the same
\* status and the same body.
C14_UniformInvalidCredential ==
    \A e1, e2 \in TokenRefusals :
        /\ ~WellFormedToken(e1.key)
        /\ WellFormedToken(e2.key) /\ e2.key \notin {i.token : i \in issued}
        => e1.status = e2.status /\ e1.error = e2.error

\* What holds: the two refusals carry the same status.
UniformRefusalStatus ==
    \A e1, e2 \in credLog : e1.status = e2.status

\* An ill-formed token and a well-formed token never issued have both been refused.
C14_Witness ==
    /\ \E e \in TokenRefusals : e.key = <<"g">>
    /\ \E e \in TokenRefusals :
         WellFormedToken(e.key) /\ e.key \notin {i.token : i \in issued}

\* apiKeyAuth ends a request in this step: with next(), with a refusal.
Resolves == cred' # cred /\ cred'.pc = "next"
Refuses == cred' # cred /\ cred'.pc = "rejected"

\* The step sets the last-used marker of the credential it resolved.
MarksResolved ==
    /\ cred'.touched = cred'.found
    /\ cred'.authType = "user_key" =>
         \E k \in apiKeys' : k.id = cred'.found /\ k.lastUsedAt = now

\* C15: every successful resolution by apiKeyAuth, of an app credential as
\* well as of a user credential, updates that credential's last-used marker,
\* and a resolution that fails updates no credential's marker.
C15_ResolutionMarksLastUsed ==
    [][(Resolves => MarksResolved) /\ (Refuses => UNCHANGED <<apiKeys, apps>>)]_vars

\* What holds: the resolution of a user credential whose row is not deleted
\* meanwhile updates its marker and a refusal updates none.
UserResolutionMarksLastUsed ==
    [][/\ /\ Resolves /\ cred'.authType = "user_key"
          /\ \E k \in apiKeys : k.id = cred'.found
          => MarksResolved
       /\ Refuses => UNCHANGED <<apiKeys, apps>>]_vars

\* An app credential has been resolved.
C15_Witness ==
    cred.pc = "next" /\ cred.authType = "app_key" /\ cred.appId = "app-1"

\* C17: a store fault during a request, credential resolution inside
\* apiKeyAuth included, is reported as a generic internal failure and never
\* as an authentication failure.
C17_StoreFaultIsInternalFailure ==
    cred.pc = "rejected" /\ cred.faulted => cred.status = 500

\* A query of apiKeyAuth has failed and the request has been answered.
C17_Witness ==
    cred.pc = "rejected" /\ cred.faulted /\ cred.error = "Authentication failed"

(***************************************************************************)
(* Properties of session credential issuance                               *)
(***************************************************************************)
\* The "Default" rows of an org.
DefaultRows(orgId) == findDefaultKey(apiKeys, orgId)

\* C20: session issuance is atomic and idempotent under concurrency: however
\* concurrent session requests of one owner interleave, the owner has at
\* most one "Default" row and every request answered returns that row's raw
\* key.
C20_SessionIssuanceAtomic ==
    \A o \in orgs :
        /\ Cardinality(DefaultRows(o.id)) <= 1
        /\ \A p \in Slots :
             iss[p].pc = "done" /\ iss[p].status = 200 /\ iss[p].orgId = o.id =>
                 \E k \in DefaultRows(o.id) :
                     k.id = iss[p].id /\ k.keyHash = hashApiKey(iss[p].key)

\* Two session requests of one owner have been answered with different keys,
\* each stored in a "Default" row of its own.
C20_Witness ==
    /\ \A p \in Slots : iss[p].pc = "done" /\ iss[p].status = 200 /\ iss[p].org = "org_1"
    /\ \E p, q \in Slots : iss[p].key # iss[q].key
    /\ \E o \in orgs : Cardinality(DefaultRows(o.id)) > 1

(***************************************************************************)
(* Properties of the secrets tables                                        *)
(***************************************************************************)
\* The decrypt request of slot p is answered in this step.
DecryptAnswered(p) ==
    reqs[p].pc \in {"secretLookup", "recordWrite"} /\ reqs'[p].pc = "idle"

\* The log entry of the natural key a decrypt request names.
NamedBy(r, e) ==
    e.table = r.route /\ e.owner = r.owner /\ e.provider = r.provider

\* C18: after a secret P is stored for an owner and provider, a decrypt
\* request with valid caller headers returns exactly P; after it is deleted,
\* every decrypt request for them is answered not-found until a new secret
\* is stored.
C18_SecretLifecycle ==
    [][\A e \in secLog :
         DecryptAnswered(1) /\ NamedBy(reqs[1], e) =>
             IF e.state = "stored"
             THEN lastResp'.status = 200 /\ lastResp'.key = e.value
             ELSE lastResp'.status = 404]_vars

\* A secret stored over the one the owner had has been decrypted.
C18_Witness ==
    /\ secLog = {[table |-> "byok", owner |-> "org_1", provider |-> "anthropic",
                  state |-> "stored", value |-> "sk-new"]}
    /\ lastResp.route = "byok" /\ lastResp.status = 200 /\ lastResp.key = "sk-new"

\* The rows holding the secret of a natural key.
RowsOfKey(table, owner, provider) ==
    IF table = "byok"
    THEN {k \in byokKeys : k.provider = provider
                           /\ \E o \in orgs : o.orgId = owner /\ o.id = k.orgId}
    ELSE IF table = "app"
    THEN {k \in appKeys : k.appId = owner /\ k.provider = provider}
    ELSE {k \in platformKeys : k.provider = provider}

C21_SessionIdempotent ==
    /\ \A a, b \in iss[1].answers :
         a.org = b.org /\ a.user = b.user => a.id = b.id /\ a.key = b.key
    /\ \A a \in iss[1].answers :
         \E o \in orgs : o.orgId = a.org /\ Cardinality(DefaultRows(o.id)) = 1

\* The second session request of an owner has been answered.
C21_Witness ==
    /\ iss[1].pc = "done" /\ iss[1].n = 2 /\ iss[1].status = 200
    /\ iss[1].org = "org_1" /\ iss[1].user = "user_1"
    /\ iss[1].answers = {[org |-> "org_1", user |-> "user_1",
                          id |-> iss[1].id, key |-> iss[1].key]}

\* C22: session credentials are per user: two users of one org are answered
\* with different raw keys, each of a credential row of its own.
C22_SessionPerUser ==
    \A a, b \in iss[1].answers :
        a.org = b.org /\ a.user # b.user => a.key # b.key /\ a.id # b.id

\* Two users of one org have been answered.
C22_Witness ==
    \E a, b \in iss[1].answers : a.org = b.org /\ a.user # b.user /\ a.key = b.key

(***************************************************************************)
(* Properties of app registration and of the credentials tables            *)
(***************************************************************************)
\* The registrations answered so far.
Registered == {p \in Slots : iss[p].pc = "done" /\ iss[p].kind = "app"}

\* C23: registration is idempotent on the app name and discloses the raw
\* key at most once: however registrations of one name follow one another
\* or interleave, one apps row exists for the name, the registration that
\* created it is answered with the raw key, and every other one is answered
\* created = false, without a raw key.
C23_RegistrationIdempotent ==
    /\ \A p \in Registered :
         /\ iss[p].status = 200
         /\ Cardinality({a \in apps : a.name = iss[p].app}) = 1
         /\ iss[p].key # << >> =>
              \E a \in apps : a.name = iss[p].app /\ a.keyHash = hashApiKey(iss[p].key)
    /\ \A p, q \in Registered :
         p # q /\ iss[p].app = iss[q].app /\ iss[p].key # << >> => iss[p].key # iss[q].key

\* What holds: one row per name, and a raw key is the key of the row.
OneRowPerAppName ==
    /\ \A a, b \in apps : a.name = b.name => a = b
    /\ \A p \in Registered :
         iss[p].status = 200 =>
             /\ Cardinality({a \in apps : a.name = iss[p].app}) = 1
             /\ iss[p].key # << >> =>
                  \E a \in apps : a.name = iss[p].app /\ a.keyHash = hashApiKey(iss[p].key)

\* Of two registrations of a new name that ran together one created the app
\* and the other was answered with an internal error.
C23_Witness ==
    \E p, q \in Registered :
        /\ iss[p].app = "app-2" /\ iss[q].app = "app-2"
        /\ iss[p].status = 200 /\ iss[p].key # << >> /\ iss[q].status = 500

\* No two rows of a credentials table share a key hash.
KeyHashUnique(rows) == \A a, b \in rows : a.keyHash = b.keyHash => a = b

\* The issuance of slot p inserts in this step, with a hash a row has.
InsertsExistingHash(p) ==
    /\ iss[p].pc \in {"create", "sessionInsert", "appInsert"} /\ iss'[p].pc = "done"
    /\ iss'[p].rawKey # << >>
    /\ ViolatesKeyHashUnique(IF iss[p].pc = "appInsert" THEN apps ELSE apiKeys,
                             hashApiKey(iss'[p].rawKey))

\* C24: in every reachable state no two credential rows share a key hash,
\* and an issuance whose hash is the hash of an existing row fails and adds
\* no row.
C24_KeyHashUnique ==
    [][/\ KeyHashUnique(apiKeys') /\ KeyHashUnique(apps')
       /\ \A p \in Slots :
            InsertsExistingHash(p) =>
                iss'[p].status = 500 /\ UNCHANGED <<apiKeys, apps>>]_vars

\* An issuance has generated the key of an existing row and failed.
C24_Witness ==
    /\ iss[1].pc = "done" /\ iss[1].status = 500 /\ iss[1].kind = "create"
    /\ \E k \in apiKeys : k.keyHash = hashApiKey(iss[1].rawKey)

(***************************************************************************)
(* More properties of recordProviderRequirement and the secrets tables     *)
(***************************************************************************)
\* Rows r and r2 differ at most in last_seen_at.
SameButLastSeen(r, r2) == r2 = [r EXCEPT !.lastSeenAt = r2.lastSeenAt]

\* C25: when recordProviderRequirement finds the 4-tuple stored, it changes
\* only that row's last_seen_at: the row's id, tuple and created_at and every
\* other row stay as they are; when the tuple is new it inserts one row whose
\* created_at and last_seen_at are equal.
C25_RecordFrame ==
    [][(reqs[1].pc = "recordWrite" /\ reqs'[1].pc = "idle") =>
          IF reqs[1].existing # 0
          THEN /\ Cardinality(provReqs') = Cardinality(provReqs)
               /\ \A r \in provReqs :
                    IF r.id = reqs[1].existing
                    THEN \E r2 \in provReqs' :
                           SameButLastSeen(r, r2) /\ r2.lastSeenAt = reqs[1].date
                    ELSE r \in provReqs'
          ELSE /\ provReqs \subseteq provReqs'
               /\ Cardinality(provReqs' \ provReqs) = 1
               /\ \A r \in provReqs' \ provReqs :
                    /\ r.createdAt = r.lastSeenAt
                    /\ r \in RowsFor(provReqs', reqs[1].caller, reqs[1].provider)
      ]_vars

\* A row has been updated after a row of another provider was inserted.
C25_Witness ==
    /\ lastResp.wrote = "update" /\ lastResp.status = 200
    /\ Cardinality(provReqs) = 2
    /\ \E r, r2 \in provReqs :
         r.lastSeenAt > r.createdAt /\ r2.lastSeenAt = r2.createdAt /\ r2.createdAt = 0

\* The delete request of slot p is answered in this step.
DeleteAnswered(p) ==
    ops'[p] # ops[p] /\ ops'[p].pc = "done" /\ ops'[p].verb = "delete"

\* The rows of tables byok, app and plat the delete of request r names.
RowsNamed(r, byok, app, plat) ==
    IF r.table = "byok"
    THEN {k \in byok : k.orgId = r.orgId /\ k.provider = r.provider}
    ELSE IF r.table = "app"
    THEN {k \in app : k.appId = r.owner /\ k.provider = r.provider}
    ELSE {k \in plat : k.provider = r.provider}

\* The delete answered in this step succeeds and removes the rows of its
\* key and nothing else: none when there is none, so that a second delete
\* changes nothing.
DeletesOnce(p) ==
    /\ ops'[p].status = 200
    /\ RowsNamed(ops'[p], byokKeys, appKeys, platformKeys) = {}
          => UNCHANGED <<byokKeys, appKeys, platformKeys>>
    /\ RowsNamed(ops'[p], byokKeys', appKeys', platformKeys') = {}
    /\ byokKeys' \cup appKeys' \cup platformKeys'
          = (byokKeys \cup appKeys \cup platformKeys)
               \ RowsNamed(ops'[p], byokKeys, appKeys, platformKeys)

\* C26: deleting a BYOK, app or platform secret is idempotent: a delete for
\* an owner and provider with no stored secret is answered with success and
\* leaves the secrets tables unchanged, and deleting twice leaves the state
\* deleting once leaves.
C26_DeleteIdempotent ==
    [][DeleteAnswered(1) => DeletesOnce(1)]_vars

\* C26, amended: the same of every delete that names a provider the route
\* accepts (for BYOK secrets, a provider in VALID_PROVIDERS).
C26_AcceptedDeleteIdempotent ==
    [][DeleteAnswered(1) /\ ops'[1].provider \notin UnlistedProviders
          => DeletesOnce(1)]_vars

\* A secret nobody stored has been deleted.
C26_Witness ==
    /\ ops[1].pc = "done" /\ ops[1].verb = "delete" /\ ops[1].status = 200
    /\ ops[1].table = "app" /\ ops[1].owner = "app_2"
    /\ appKeys = InitAppKeys /\ byokKeys = InitByokKeys /\ platformKeys = InitPlatformKeys

\* The natural keys of the secrets tables other than the one the store or
\* delete request r names.
OtherKeys(r) ==
    {key \in SecretTables \X (ExternalOrgIds \cup AppIds \cup {""}) \X Providers :
        /\ key[2] \in OwnersOf(key[1])
        /\ key # <<r.table, r.owner, r.provider>>}

\* C27: tenant isolation of the secret store: a decrypt request for an owner
\* and provider returns only a secret stored for exactly that owner and
\* provider, and a store, replacement or delete for another owner with the
\* same provider never changes the secret held for them.
C27_TenantIsolation ==
    [][/\ DecryptAnswered(1) /\ lastResp'.status = 200 =>
             \E k \in RowsOfKey(reqs[1].route, reqs[1].owner, reqs[1].provider) :
                 decrypt(k.encryptedKey) = [ok |-> TRUE, pt |-> lastResp'.key]
       /\ \A key \in OtherKeys(ops'[1]) :
             RowsOfKey(key[1], key[2], key[3])' = RowsOfKey(key[1], key[2], key[3])
      ]_vars

\* org_2 has stored its own "anthropic" secret, and a decrypt request of
\* org_1 for "anthropic" has looked up the secret org_1 had before.
C27_Witness ==
    /\ \E k \in RowsOfKey("byok", "org_2", "anthropic") :
          decrypt(k.encryptedKey).pt = "sk-new"
    /\ reqs[1].pc = "recordFind" /\ reqs[1].route = "byok" /\ reqs[1].owner = "org_1"
    /\ reqs[1].key.found /\ decrypt(reqs[1].key.encryptedKey).pt = "sk-ant-secret123"

(***************************************************************************)
(* Properties of credential deletion and of the rows of issued credentials *)
(***************************************************************************)
\* The request of slot 1 names the user credential i and an org other than
\* the one i was issued for.
ForeignDelete(i) ==
    /\ iss[1].kind = "delete" /\ iss[1].target = i.id /\ iss[1].org # i.org

\* apiKeyAuth answers in this step a request that presented the raw token
\* of i and met no store fault.
AuthAnswered(i) ==
    /\ cred.pc \notin {"next", "rejected"} /\ cred'.pc \in {"next", "rejected"}
    /\ ~cred'.faulted /\ cred'.header = <<BearerScheme>> \o i.token

\* The delete of a credential by an org that does not own it is answered
\* not-found and leaves every credential in place.
ForeignDeleteRefused(i) ==
    ForeignDelete(i) /\ iss[1].pc = "delete" /\ iss'[1].pc = "done" =>
        /\ iss'[1].status = 404
        /\ UNCHANGED <<apiKeys, apps>>

\* The credential i, presented after such a delete, authenticates as a
\* user key of its org.
AuthenticatesAfterwards(i) ==
    ForeignDelete(i) /\ iss[1].pc = "done" /\ AuthAnswered(i) =>
        /\ cred'.pc = "next" /\ cred'.authType = "user_key"
        /\ \E o \in orgs : o.id = cred'.orgId /\ o.orgId = i.org

UserCredentials == {i \in issued : i.kind = "user_key"}

\* C28: deleting a user credential is scoped to its org: a delete that
\* names the id k with an org that does not own k is answered not-found and
\* leaves k and every other credential in place, so that k still
\* authenticates afterwards.
C28_DeleteScopedToOrg ==
    [][\A i \in UserCredentials :
          ForeignDeleteRefused(i) /\ AuthenticatesAfterwards(i)]_vars

\* What holds: such a delete is answered not-found and leaves every
\* credential in place, and a credential of the "mcpf_" family authenticates
\* afterwards.
ForeignDeleteLeavesCredentials ==
    [][\A i \in UserCredentials :
          /\ ForeignDeleteRefused(i)
          /\ hasLegacyPrefix(i.token) => AuthenticatesAfterwards(i)]_vars

\* A key the create-key or session endpoint issued has been named in a
\* delete by another org, is still stored, and has been presented and
\* refused.
C28_Witness ==
    \E i \in UserCredentials :
        /\ i.token \in generateApiKey /\ RowExists(i)
        /\ ForeignDelete(i) /\ iss[1].pc = "done" /\ iss[1].status = 404
        /\ Presented(i) /\ cred.pc = "rejected"

\* The row's ciphertext opens to a key with the row's hash and prefix.
CiphertextMatchesRow(k) ==
    LET plain == decrypt(k.encryptedKey) IN
    /\ plain.ok
    /\ hashApiKey(plain.pt) = k.keyHash
    /\ getKeyPrefix(plain.pt) = k.keyPrefix

\* The session request of slot p is answered in this step with a key that
\* was stored before.
Redisclosed(p) ==
    iss[p].pc = "session" /\ iss'[p].pc = "done" /\ iss'[p].status = 200

\* C29: every credential row stored with an encrypted raw key satisfies
\* hash(decrypt(encryptedKey)) = keyHash and prefix(decrypt(encryptedKey)) =
\* keyPrefix, so that the raw key a later session request discloses again
\* always hashes to a stored credential of the same org.
C29_CiphertextMatchesHash ==
    /\ [](\A k \in apiKeys : k.encryptedKey # NoCiphertext => CiphertextMatchesRow(k))
    /\ [][Redisclosed(1) =>
             \E k \in apiKeys' : /\ k.keyHash = hashApiKey(iss'[1].key)
                                  /\ k.orgId = iss'[1].orgId
                                  /\ \E o \in orgs' : o.id = k.orgId /\ o.orgId = iss'[1].org
         ]_vars

\* A session request has been answered with the key of a row stored with
\* its ciphertext by an earlier request.
C29_Witness ==
    /\ iss[1].pc = "done" /\ iss[1].kind = "session" /\ iss[1].status = 200
    /\ iss[1].rawKey = << >> /\ iss[1].key \in generateApiKey
    /\ \E k \in apiKeys : k.id = iss[1].id /\ k.encryptedKey # NoCiphertext

(***************************************************************************)
(* Properties of ensureOrg                                                 *)
(***************************************************************************)
\* At most one orgs row per external id, and every ensureOrg call that has
\* returned has returned the id of the row of the id it was given.
OrgMappingFunctional ==
    /\ \A o1, o2 \in orgs : o1.orgId = o2.orgId => o1 = o2
    /\ \A p \in Slots :
          ops[p].orgId # 0 => \E o \in orgs : o.orgId = ops[p].owner /\ o.id = ops[p].orgId

\* The request of slot p was answered 500 out of ensureOrg.
EnsureOrgFailed(p) ==
    /\ ops[p].pc = "done" /\ ops[p].status = 500
    /\ ops[p].table = "byok" /\ ops[p].orgId = 0

\* C30: ensureOrg keeps the mapping from external to internal org id
\* functional under concurrency: at most one orgs row per external id, every
\* ensureOrg call that returns yields the id of that row, and concurrent
\* first requests for a new external org id all complete without a store
\* error.
C30_EnsureOrgConcurrent ==
    /\ OrgMappingFunctional
    /\ \A p \in Slots : ~EnsureOrgFailed(p)

\* Two first requests for org_2 were in flight together: one inserted the
\* orgs row and went on, the other was answered 500.
C30_Witness ==
    /\ \E o \in orgs : o.orgId = "org_2"
    /\ \E p, q \in Slots :
          /\ ops[p].owner = "org_2" /\ EnsureOrgFailed(p)
          /\ ops[q].owner = "org_2" /\ ops[q].orgId # 0

====
